---------------------------- MODULE Spec2Model ----------------------------
(***************************************************************************)
(* Model of the data-preparation scripts of cry-data-analysis:             *)
(*   - the region/district aggregation loops of                            *)
(*     scripts/add_region_district_data.py,                                *)
(*     scripts/add_region_district_education.py and                        *)
(*     scripts/generate_summary_data.py;                                   *)
(*   - the risk scorers of scripts/analyze_protection_risk.py.             *)
(*                                                                         *)
(* Python strings are modelled as sequences of one-character strings so    *)
(* that str(), lower() and strip() are computed character by character.    *)
(* A JSON value is a string, an integer or null; a record is a function    *)
(* from the field names it has to values (a field it lacks is outside its  *)
(* DOMAIN, a field it has with value null maps to Null).                   *)
(***************************************************************************)
EXTENDS Integers, Sequences, FiniteSets, TLC

VARIABLES
    script,             \* which script is running the aggregation loop
    pc,                 \* "loop" while records are read, "done" after the loop
    processed,          \* the records of all_records read so far, in order
    byRegion,           \* region -> Counter
    byDistrict,         \* district -> Counter
    regionYearData,     \* region -> year -> Counter
    districtYearData,   \* district -> year -> Counter
    regionDistrictMap,  \* region -> set of districts
    byYear,             \* year -> Counter (generate_summary_data only)
    byAttendanceRate,   \* bucket -> count (generate_child_education_summary)
    byPerformance,      \* performance -> count (generate_child_education_summary)
    row,                \* the data-frame row handed to the risk scorers
    rpc,                \* position of analyze_protection_risks on that row
    marriage,           \* result of calc_child_marriage_risk: [score, factors]
    labour,             \* result of calc_child_labour_risk
    trafficking,        \* result of calc_child_trafficking_risk
    levels,             \* category -> risk level of the row
    level_score,        \* argument of a direct get_risk_level call
    level_out,          \* its result
    raw_data,           \* the document loaded from the *_ORIGINAL.json file
    all_records,        \* the flattened record list
    files,              \* file name -> content of the file on disk
    files0,             \* the files as they were when the run started
    written,            \* the files the run has opened for writing
    listing,            \* os.listdir(data_dir): the file names, in its order
    content,            \* file name -> text of the file
    content0,           \* the texts before the batch
    shape0,             \* how each text was built: [shape, v, w]
    position,           \* index in listing of the next file of the batch
    report,             \* the [OK] / [ERROR] lines printed, in order
    labor_df,           \* the merged frame load_data returns: its rows, in order
    girls_10_18,        \* the filtered frame with its marriage score columns
    children_6_18,      \* the filtered frame with its labour and trafficking columns
    protectionVulnerability, \* data['protectionVulnerability'] as written
    data_dir,           \* public/data: file name -> JSON document, or NoFile
    data_dir0,          \* public/data as it was before the last script ran
    missing_columns,    \* the charts whose source column the frames lack
    analytics_data,     \* the dict literal of generate_advanced_analytics so far
    chart               \* index of the next entry of that dict literal

aggVars ==
    <<script, pc, processed, byRegion, byDistrict, regionYearData,
      districtYearData, regionDistrictMap, byYear, byAttendanceRate,
      byPerformance>>
riskVars ==
    <<row, rpc, marriage, labour, trafficking, levels>>
levelVars ==
    <<level_score, level_out>>
flattenVars ==
    <<raw_data, all_records>>
fileVars ==
    <<files, files0, written>>
tableVars ==
    <<processed, byRegion, byDistrict, regionYearData, districtYearData,
      regionDistrictMap, byYear, byAttendanceRate, byPerformance>>
fixVars ==
    <<listing, content, content0, shape0, position, report>>
bandVars ==
    <<labor_df, girls_10_18, children_6_18, protectionVulnerability>>
backupVars ==
    <<data_dir, data_dir0>>
chartVars ==
    <<missing_columns, analytics_data, chart>>
moreVars ==
    <<bandVars, backupVars, chartVars>>
extVars ==
    <<flattenVars, fileVars, fixVars, moreVars>>
vars ==
    <<aggVars, riskVars, levelVars, extVars>>

(***************************************************************************)
(* String literals of the program and of the inputs.                       *)
(***************************************************************************)
S_Empty ==
    << >>
S_Unknown ==
    <<"U","n","k","n","o","w","n">>
S_None ==
    <<"N","o","n","e">>
S_nan ==
    <<"n","a","n">>
S_male ==
    <<"m","a","l","e">>
S_m ==
    <<"m">>
S_boy ==
    <<"b","o","y">>
S_female ==
    <<"f","e","m","a","l","e">>
S_f ==
    <<"f">>
S_girl ==
    <<"g","i","r","l">>
S_North ==
    <<"N","o","r","t","h">>
S_South ==
    <<"S","o","u","t","h">>
S_Blank ==
    <<" ">>
S_D1 ==
    <<"D","1">>
S_D2 ==
    <<"D","2">>
S_2023 ==
    <<"2","0","2","3">>
S_2024 ==
    <<"2","0","2","4">>
S_2025 ==
    <<"2","0","2","5">>
S_Male ==
    <<"M","a","l","e">>
S_MaleSp ==
    <<" ","M","a","l","e"," ">>
S_F ==
    <<"F">>
S_M ==
    <<"M">>
S_other ==
    <<"o","t","h","e","r">>
S_yes ==
    <<"y","e","s">>
S_drop_out ==
    <<"d","r","o","p"," ","o","u","t">>
S_never_enrolled ==
    <<"n","e","v","e","r"," ","e","n","r","o","l","l","e","d">>
S_outside_home_alone ==
    <<"o","u","t","s","i","d","e"," ","h","o","m","e"," ","a","l","o","n","e">>
S_below_poverty ==
    <<"b","e","l","o","w"," ","p","o","v","e","r","t","y">>
S_no_ration ==
    <<"n","o"," ","r","a","t","i","o","n">>
S_agent ==
    <<"a","g","e","n","t">>
S_contractor ==
    <<"c","o","n","t","r","a","c","t","o","r">>
S_labour ==
    <<"l","a","b","o","u","r">>
S_DropOut ==
    <<"D","r","o","p"," ","O","u","t">>
S_NeverEnrolled ==
    <<"N","e","v","e","r"," ","E","n","r","o","l","l","e","d">>
S_Enrolled ==
    <<"E","n","r","o","l","l","e","d">>
S_Yes ==
    <<"Y","e","s">>
S_No ==
    <<"N","o">>
S_YesOutside ==
    <<"Y","e","s"," ","-"," ","o","u","t","s","i","d","e"," ","h","o","m","e"," ","a","l","o","n","e">>
S_YesAgent ==
    <<"Y","e","s"," ","-"," ","t","h","r","o","u","g","h"," ","a","g","e","n","t">>
S_BPL ==
    <<"B","e","l","o","w"," ","P","o","v","e","r","t","y"," ","L","i","n","e">>
S_APL ==
    <<"A","b","o","v","e"," ","P","o","v","e","r","t","y"," ","L","i","n","e">>
S_NoRation ==
    <<"N","o"," ","R","a","t","i","o","n"," ","C","a","r","d">>

(***************************************************************************)
(* Python string primitives.                                               *)
(***************************************************************************)
UpperChars ==
    <<"A","B","C","D","E","F","G","H","I","J","K","L","M",
      "N","O","P","Q","R","S","T","U","V","W","X","Y","Z">>
LowerChars ==
    <<"a","b","c","d","e","f","g","h","i","j","k","l","m",
      "n","o","p","q","r","s","t","u","v","w","x","y","z">>
DigitChars ==
    <<"0","1","2","3","4","5","6","7","8","9">>

\* str.lower() on one character
LowerChar(c) ==
    IF \E i \in DOMAIN UpperChars : UpperChars[i] = c
    THEN LowerChars[CHOOSE i \in DOMAIN UpperChars : UpperChars[i] = c]
    ELSE c

\* str.lower()
Lower(s) ==
    [i \in DOMAIN s |-> LowerChar(s[i])]

\* str.isspace() on one character
IsSpace(c) ==
    c \in {" ", "\t", "\n", "\r"}

\* str.strip(): drop leading and trailing whitespace
Strip(s) ==
    LET keep == {i \in DOMAIN s : ~IsSpace(s[i])}
    IN  IF keep = {} THEN << >>
        ELSE LET lo == CHOOSE i \in keep : \A j \in keep : i <= j
                 hi == CHOOSE i \in keep : \A j \in keep : i >= j
             IN  SubSeq(s, lo, hi)

\* the Python test  sub in s  on strings
Contains(sub, s) ==
    \E i \in 1..(Len(s) - Len(sub) + 1) : SubSeq(s, i, i + Len(sub) - 1) = sub

RECURSIVE NatToStr(_)
\* str() of a non-negative int: its decimal digits
NatToStr(n) ==
    IF n < 10 THEN <<DigitChars[n + 1]>>
    ELSE Append(NatToStr(n \div 10), DigitChars[(n % 10) + 1])

RECURSIVE DigitValue(_)
\* the number a sequence of digit characters writes
DigitValue(ds) ==
    IF ds = << >> THEN 0
    ELSE 10 * DigitValue(SubSeq(ds, 1, Len(ds) - 1))
         + (CHOOSE n \in 0..9 : NatToStr(n) = <<ds[Len(ds)]>>)

\* str() of an int
IntToStr(n) ==
    IF n < 0 THEN <<"-">> \o NatToStr(0 - n) ELSE NatToStr(n)

(***************************************************************************)
(* JSON / data-frame values.                                               *)
(***************************************************************************)
Str(s) ==
    [t |-> "str", s |-> s, n |-> 0]
Num(n) ==
    [t |-> "num", s |-> << >>, n |-> n]
Null ==
    [t |-> "null", s |-> << >>, n |-> 0]
NaN ==
    [t |-> "nan", s |-> << >>, n |-> 0]
\* marks a column a row does not have; never the value of a field
Absent ==
    [t |-> "absent", s |-> << >>, n |-> 0]

\* str(value)
PyStr(v) ==
    CASE v.t = "str"  -> v.s
      [] v.t = "num"  -> IntToStr(v.n)
      [] v.t = "null" -> S_None
      [] v.t = "nan"  -> S_nan

\* dict.get(key, default): the default is used only when the key is absent
Get(rec, key, default) ==
    IF key \in DOMAIN rec THEN rec[key] ELSE default

(***************************************************************************)
(* Bounds and inputs of the aggregation loops.                             *)
(***************************************************************************)
\* longest input all_records explored
MaxRecords ==
    3

\* the records all_records is drawn from: every alias, null, blank, case and
\* year-type combination the loops distinguish occurs in one of them
RecNorthMale ==
    ("Region Name" :> Str(S_North)) @@ ("District Name" :> Str(S_D1))
        @@ ("Year" :> Num(2023)) @@ ("Gender" :> Str(S_Male))
RecNorthFemale ==
    ("Region Name" :> Str(S_North)) @@ ("District Name" :> Str(S_D1))
        @@ ("Year" :> Str(S_2023)) @@ ("Gender" :> Str(S_female))
RecSouthBoy ==
    ("Region" :> Str(S_South)) @@ ("District" :> Str(S_D2))
        @@ ("Year" :> Num(2024)) @@ ("Gender" :> Str(S_boy))
RecNullRegionName ==
    ("Region Name" :> Null) @@ ("Region" :> Str(S_North))
        @@ ("District" :> Str(S_D2)) @@ ("Year" :> Num(2023))
        @@ ("Gender" :> Str(S_F))
RecBlankRegion ==
    ("Region Name" :> Str(S_Blank)) @@ ("District Name" :> Str(S_Empty))
        @@ ("Year" :> Num(2023)) @@ ("Gender" :> Str(S_girl))
RecPeriodicity ==
    ("Region" :> Str(S_South)) @@ ("District Name" :> Str(S_D1))
        @@ ("Periodicity" :> Str(S_2024)) @@ ("Gender_x" :> Str(S_M))
RecPaddedMale ==
    ("Region" :> Str(S_South)) @@ ("District" :> Str(S_D2))
        @@ ("Year" :> Num(2023)) @@ ("Gender" :> Str(S_MaleSp))

Records ==
    { RecNorthMale, RecNorthFemale, RecSouthBoy, RecNullRegionName,
      RecBlankRegion, RecPeriodicity, RecPaddedMale,
      ("Region Name" :> Str(S_North)) @@ ("District" :> Str(S_D2))
          @@ ("Year" :> Null) @@ ("Gender" :> Null) @@ ("Gender_x" :> Str(S_boy)),
      ("Region" :> Str(S_South)) @@ ("District Name" :> Str(S_D1))
          @@ ("Year" :> Str(S_2023)) @@ ("Gender" :> Str(S_other)),
      ("Region Name" :> Str(S_North)) @@ ("District Name" :> Str(S_D1))
          @@ ("Year" :> Num(2023)) @@ ("Gender" :> Str(S_Empty)),
      ("District Name" :> Null) @@ ("District" :> Str(S_D1))
          @@ ("Gender" :> Str(S_m)),
      [k \in {} |-> Null] }

Scripts ==
    {"add_region_district_data", "add_region_district_education",
     "generate_child_annual_summary", "generate_child_education_summary"}

(***************************************************************************)
(* Helpers of the aggregation scripts.                                     *)
(***************************************************************************)
\* add_region_district_data.safe_str (add_region_district_education has the
\* same text)
safe_str(value, default) ==
    IF value = Null THEN default
    ELSE LET s == Strip(PyStr(value))
         IN  IF s # << >> THEN s ELSE default

\* generate_summary_data.safe_str: no strip, no default for a blank string
gs_safe_str(value, default) ==
    IF value = Null THEN default ELSE PyStr(value)

\* mutant: the value is stringified and not lowercased
safe_lower_keeps_case(value) ==
    IF value = Null THEN << >> ELSE PyStr(value)

\* safe_lower, the same text in the three scripts
safe_lower(value) ==
    IF value = Null THEN << >> ELSE Lower(PyStr(value))

\* gender in ['male', 'm', 'boy']
is_male(gender) ==
    gender \in {S_male, S_m, S_boy}

\* gender in ['female', 'f', 'girl']
is_female(gender) ==
    gender \in {S_female, S_f, S_girl}

\* the default of the defaultdicts: {'count': 0, 'boys': 0, 'girls': 0}
ZeroCounter ==
    [count |-> 0, boys |-> 0, girls |-> 0]

EmptyTable ==
    [k \in {} |-> ZeroCounter]

EmptyNested ==
    [k \in {} |-> EmptyTable]

ZeroAttendance ==
    [excellent |-> 0, good |-> 0, average |-> 0, poor |-> 0]
EmptyCounts ==
    << >>
EmptyMap ==
    [k \in {} |-> {}]

\* mutant: "else" where the code has "elif is_female"
BumpCounter_else(c, male, female) ==
    [count |-> c.count + 1,
     boys  |-> IF male THEN c.boys + 1 ELSE c.boys,
     girls |-> IF ~male THEN c.girls + 1 ELSE c.girls]

\* counter['count'] += 1; if is_male: ['boys'] += 1; elif is_female: ['girls'] += 1
BumpCounter(c, male, female) ==
    [count |-> c.count + 1,
     boys  |-> IF male THEN c.boys + 1 ELSE c.boys,
     girls |-> IF ~male /\ female THEN c.girls + 1 ELSE c.girls]

\* mutant: the entry is overwritten by a fresh counter instead of incremented
Bump_overwrite(table, key, male, female) ==
    [k \in DOMAIN table \cup {key} |->
        IF k = key THEN BumpCounter(ZeroCounter, male, female) ELSE table[k]]

\* table[key] updated as above, the entry inserted at zero when missing
Bump(table, key, male, female) ==
    LET old == IF key \in DOMAIN table THEN table[key] ELSE ZeroCounter
    IN  [k \in DOMAIN table \cup {key} |->
            IF k = key THEN BumpCounter(old, male, female) ELSE table[k]]

\* mutant: the inner table is replaced by one that holds the current year only
BumpNested_reset(table, key, year, male, female) ==
    [k \in DOMAIN table \cup {key} |->
        IF k = key THEN Bump(EmptyTable, year, male, female) ELSE table[k]]

\* table[key][year] updated as above, both levels inserted when missing
BumpNested(table, key, year, male, female) ==
    LET inner == IF key \in DOMAIN table THEN table[key] ELSE EmptyTable
    IN  [k \in DOMAIN table \cup {key} |->
            IF k = key THEN Bump(inner, year, male, female) ELSE table[k]]

\* AddDistrict with "or" in place of "and"
AddDistrict_either(map, region, district) ==
    IF region # S_Unknown \/ district # S_Unknown
    THEN [k \in DOMAIN map \cup {region} |->
            IF k = region
            THEN (IF region \in DOMAIN map THEN map[region] ELSE {}) \cup {district}
            ELSE map[k]]
    ELSE map

\* AddDistrict that keeps only the first district seen for a region
AddDistrict_first_only(map, region, district) ==
    IF region # S_Unknown /\ district # S_Unknown /\ region \notin DOMAIN map
    THEN [k \in DOMAIN map \cup {region} |->
            IF k = region THEN {district} ELSE map[k]]
    ELSE map

\* if region != 'Unknown' and district != 'Unknown': map[region].add(district)
AddDistrict(map, region, district) ==
    IF region # S_Unknown /\ district # S_Unknown
    THEN [k \in DOMAIN map \cup {region} |->
            IF k = region
            THEN (IF region \in DOMAIN map THEN map[region] ELSE {}) \cup {district}
            ELSE map[k]]
    ELSE map

(***************************************************************************)
(* Serialisation of the relation map: {k: sorted(list(v)) for k, v in ...}. *)
(***************************************************************************)
\* the characters of the model's strings in code-point order
CodePointOrder ==
    <<" ", "-", ".", "0", "1", "2", "3", "4", "5", "6", "7", "8", "9",
      "A", "B", "C", "D", "E", "F", "G", "H", "I", "J", "K", "L", "M",
      "N", "O", "P", "Q", "R", "S", "T", "U", "V", "W", "X", "Y", "Z", "_",
      "a", "b", "c", "d", "e", "f", "g", "h", "i", "j", "k", "l", "m",
      "n", "o", "p", "q", "r", "s", "t", "u", "v", "w", "x", "y", "z">>

\* ord(c), up to an order-preserving renumbering
Ord(c) ==
    CHOOSE i \in 1..Len(CodePointOrder) : CodePointOrder[i] = c

RECURSIVE StrLess(_, _)
\* a < b on Python strings
StrLess(a, b) ==
    IF b = << >> THEN FALSE
    ELSE IF a = << >> THEN TRUE
    ELSE IF Head(a) # Head(b) THEN Ord(Head(a)) < Ord(Head(b))
    ELSE StrLess(Tail(a), Tail(b))

RECURSIVE sorted(_)
\* sorted(list(v)) of a set of strings
sorted(v) ==
    IF v = {} THEN << >>
    ELSE LET least == CHOOSE x \in v : \A y \in v \ {x} : StrLess(x, y)
         IN  <<least>> \o sorted(v \ {least})

\* {k: sorted(list(v)) for k, v in region_district_map.items()}
SerializeMap(map) ==
    [k \in DOMAIN map |-> sorted(map[k])]

(***************************************************************************)
(* Field extraction, per script.                                           *)
(***************************************************************************)
ard_region(record) ==
    safe_str(Get(record, "Region Name", Get(record, "Region", Str(S_Unknown))),
             S_Unknown)

ard_district(record) ==
    safe_str(Get(record, "District Name", Get(record, "District", Str(S_Unknown))),
             S_Unknown)

ard_year(record) ==
    PyStr(Get(record, "Year", Get(record, "Periodicity", Str(S_Unknown))))

ard_gender(record) ==
    safe_lower(Get(record, "Gender", Get(record, "Gender_x", Str(S_Empty))))

gs_region(record) ==
    gs_safe_str(Get(record, "Region Name", Get(record, "Region", Str(S_Unknown))),
                S_Unknown)

gs_district(record) ==
    gs_safe_str(Get(record, "District Name", Get(record, "District", Str(S_Unknown))),
                S_Unknown)

gs_year(record) ==
    gs_safe_str(Get(record, "Year", Str(S_Unknown)), S_Unknown)

gs_gender(record) ==
    safe_lower(Get(record, "Gender", Get(record, "Gender_x", Str(S_Empty))))

\* the group keys and gender of a record as the running script computes them
RegionOf(s, record) ==
    IF s \in {"add_region_district_data", "add_region_district_education"}
    THEN ard_region(record) ELSE gs_region(record)

DistrictOf(s, record) ==
    IF s \in {"add_region_district_data", "add_region_district_education"}
    THEN ard_district(record) ELSE gs_district(record)

YearOf(s, record) ==
    IF s \in {"add_region_district_data", "add_region_district_education"}
    THEN ard_year(record) ELSE gs_year(record)

GenderOf(s, record) ==
    IF s \in {"add_region_district_data", "add_region_district_education"}
    THEN ard_gender(record) ELSE gs_gender(record)

(***************************************************************************)
(* The aggregation loops: one action per loop iteration.                   *)
(***************************************************************************)
\* one iteration of the loop of add_region_district_data.py (lines 64-106)
RegionDistrictLoopBody(record) ==
    LET region   == ard_region(record)
        district == ard_district(record)
        year     == ard_year(record)
        gender   == ard_gender(record)
        male     == is_male(gender)
        female   == is_female(gender)
    IN  /\ byRegion' = Bump(byRegion, region, male, female)
        /\ byDistrict' = Bump(byDistrict, district, male, female)
        /\ regionYearData' = BumpNested(regionYearData, region, year, male, female)
        /\ districtYearData' = BumpNested(districtYearData, district, year, male, female)
        /\ regionDistrictMap' = AddDistrict(regionDistrictMap, region, district)
        /\ processed' = Append(processed, record)
        /\ UNCHANGED <<script, pc, byYear, byAttendanceRate, byPerformance>>

AddRegionDistrictDataStep(record) ==
    /\ script = "add_region_district_data"
    /\ pc = "loop"
    /\ Len(processed) < MaxRecords
    /\ RegionDistrictLoopBody(record)
    /\ UNCHANGED <<riskVars, levelVars, extVars>>

AddRegionDistrictEducationStep(record) ==
    /\ script = "add_region_district_education"
    /\ pc = "loop"
    /\ Len(processed) < MaxRecords
    /\ RegionDistrictLoopBody(record)
    /\ UNCHANGED <<riskVars, levelVars, extVars>>

\* one iteration of the loop of generate_child_annual_summary; the tables of
\* dimensions no property here reads (state, project, age band, ...) are updated
\* by the same pattern and left out
GenerateChildAnnualSummaryStep(record) ==
    /\ script = "generate_child_annual_summary"
    /\ pc = "loop"
    /\ Len(processed) < MaxRecords
    /\ LET year     == gs_year(record)
           region   == gs_region(record)
           district == gs_district(record)
           gender   == gs_gender(record)
           male     == is_male(gender)
           female   == is_female(gender)
       IN  /\ byYear' = Bump(byYear, year, male, female)
           /\ byRegion' = Bump(byRegion, region, male, female)
           /\ byDistrict' = Bump(byDistrict, district, male, female)
           /\ regionYearData' = BumpNested(regionYearData, region, year, male, female)
           /\ districtYearData' = BumpNested(districtYearData, district, year, male, female)
           /\ regionDistrictMap' = AddDistrict(regionDistrictMap, region, district)
    /\ processed' = Append(processed, record)
    /\ UNCHANGED <<script, pc, byAttendanceRate, byPerformance, riskVars,
                   levelVars, extVars>>

\* bool(value)
Truthy(v) ==
    IF v.t = "str" THEN v.s # << >>
    ELSE IF v.t = "num" THEN v.n # 0
    ELSE v.t = "nan"

\* float(value) on the values of the model: whole numbers, strings of digits
\* with surrounding blanks, 'nan' in any case and the float NaN are converted,
\* every other string raises ValueError
Float(v) ==
    IF v.t = "num" THEN [raises |-> FALSE, nan |-> FALSE, val |-> v.n]
    ELSE IF v.t = "nan" THEN [raises |-> FALSE, nan |-> TRUE, val |-> 0]
    ELSE IF v.t = "str" /\ Strip(v.s) # << >>
            /\ \A i \in DOMAIN Strip(v.s) :
                  \E d \in DOMAIN DigitChars : DigitChars[d] = Strip(v.s)[i]
    THEN [raises |-> FALSE, nan |-> FALSE, val |-> DigitValue(Strip(v.s))]
    ELSE IF v.t = "str" /\ Lower(Strip(v.s)) = S_nan
    THEN [raises |-> FALSE, nan |-> TRUE, val |-> 0]
    ELSE [raises |-> TRUE, nan |-> FALSE, val |-> 0]

\* the bucket the try block increments, "none" when float() raises
attendance_bucket(attendance) ==
    IF ~Truthy(attendance) THEN "poor"
    ELSE IF Float(attendance).raises THEN "none"
    ELSE IF Float(attendance).nan THEN "poor"
    ELSE IF Float(attendance).val >= 90 THEN "excellent"
    ELSE IF Float(attendance).val >= 75 THEN "good"
    ELSE IF Float(attendance).val >= 50 THEN "average"
    ELSE "poor"

\* record.get('Attendance Rate', record.get('AttendanceRate', 0))
gs_attendance(record) ==
    Get(record, "Attendance Rate", Get(record, "AttendanceRate", Num(0)))

\* safe_str(record.get('Performance', record.get('AcademicPerformance', 'Unknown')))
gs_performance(record) ==
    gs_safe_str(Get(record, "Performance",
                    Get(record, "AcademicPerformance", Str(S_Unknown))), S_Unknown)

\* summary['byPerformance'][key] += 1 on a defaultdict(int)
Count(table, key) ==
    [k \in DOMAIN table \cup {key} |->
        (IF k \in DOMAIN table THEN table[k] ELSE 0) + (IF k = key THEN 1 ELSE 0)]

\* one iteration of the loop of generate_child_education_summary, which keeps no
\* region or district table
GenerateChildEducationSummaryStep(record) ==
    /\ script = "generate_child_education_summary"
    /\ pc = "loop"
    /\ Len(processed) < MaxRecords
    /\ LET year   == gs_year(record)
           gender == gs_gender(record)
       IN  byYear' = Bump(byYear, year, is_male(gender), is_female(gender))
    /\ LET bucket == attendance_bucket(gs_attendance(record))
       IN  byAttendanceRate' =
               IF bucket = "none" THEN byAttendanceRate
               ELSE [byAttendanceRate EXCEPT ![bucket] = @ + 1]
    /\ byPerformance' = Count(byPerformance, gs_performance(record))
    /\ processed' = Append(processed, record)
    /\ UNCHANGED <<script, pc, byRegion, byDistrict, regionYearData,
                   districtYearData, regionDistrictMap, riskVars, levelVars, extVars>>

\* all_records is exhausted: the loop ends
EndOfRecords ==
    /\ pc = "loop"
    /\ pc' = "done"
    /\ UNCHANGED <<script, processed, byRegion, byDistrict, regionYearData,
                   districtYearData, regionDistrictMap, byYear, byAttendanceRate,
                   byPerformance, riskVars, levelVars, extVars>>

(***************************************************************************)
(* Risk scorers of analyze_protection_risk.py.                             *)
(***************************************************************************)
F_enrollment ==
    "Enrollment status"
F_economic ==
    "Is the child involved in any Economic activities? (with or without wage/ monetary compensation for the child)"
F_bonded ==
    "Bonded labour involvement"
F_single_parent ==
    "Whether the HH is headed by a single parent"
F_grandparent ==
    "Whether the HH is headed by grand parents"
F_child_headed ==
    "Whether headed by children (18 years and below)"
F_earner_ill ==
    "Whether the primary bread-earner of the HH is terminally/seriously ill"
F_migrated ==
    "Child migrated in the last 3 months?"
F_hh_migrates ==
    "Whether Household migrates every year"
F_missing ==
    "Is any child missing?"
F_ration ==
    "Type of Ration card"

\* the highest score a scorer returns: min(score, 100)
MaxScore ==
    100

\* str(row.get(field, '')).lower()
Field(r, field) ==
    Lower(PyStr(Get(r, field, Str(S_Empty))))

\* one rule: its points and label when it triggers, nothing otherwise
Rule(triggered, points, label) ==
    IF triggered THEN [points |-> points, labels |-> <<label>>]
    ELSE [points |-> 0, labels |-> << >>]

Min(a, b) ==
    IF a <= b THEN a ELSE b

RECURSIVE SumPoints(_)
SumPoints(rules) ==
    IF rules = << >> THEN 0 ELSE Head(rules).points + SumPoints(Tail(rules))

RECURSIVE AllLabels(_)
AllLabels(rules) ==
    IF rules = << >> THEN << >> ELSE Head(rules).labels \o AllLabels(Tail(rules))

\* mutant: the score is returned without the cap
Result_uncapped(rules) ==
    [score |-> SumPoints(rules), factors |-> AllLabels(rules)]

\* return min(score, 100), factors
Result(rules) ==
    [score |-> Min(SumPoints(rules), MaxScore), factors |-> AllLabels(rules)]

is_out_of_school(r) ==
    \/ Contains(S_drop_out, Field(r, F_enrollment))
    \/ Contains(S_never_enrolled, Field(r, F_enrollment))

is_economically_active(r) ==
    Contains(S_yes, Field(r, F_economic))

orphan_or_single_parent(r) ==
    \/ Field(r, F_single_parent) = S_yes
    \/ Field(r, F_grandparent) = S_yes
    \/ Field(r, F_child_headed) = S_yes

migration(r) ==
    \/ Contains(S_yes, Field(r, F_migrated))
    \/ Field(r, F_hh_migrates) = S_yes

poor_ration(r) ==
    \/ Contains(S_below_poverty, Field(r, F_ration))
    \/ Contains(S_no_ration, Field(r, F_ration))

\* mutant: the orphan/single-parent rule carries the weight it has in the labour scorer
calc_child_marriage_risk_labour_weight(r) ==
    Result(<<
        Rule(is_out_of_school(r), 20, "Out of school"),
        Rule(orphan_or_single_parent(r), 10, "Orphan/Single parent"),
        Rule(Field(r, F_earner_ill) = S_yes, 5, "Primary earner ill"),
        Rule(migration(r), 5, "Migration/Risk area"),
        Rule(Field(r, F_missing) = S_yes, 10, "Missing children in HH"),
        Rule(poor_ration(r), 10, "BPL/Economic hardship") >>)

calc_child_marriage_risk(r) ==
    Result(<<
        Rule(is_out_of_school(r), 20, "Out of school"),
        Rule(orphan_or_single_parent(r), 15, "Orphan/Single parent"),
        Rule(Field(r, F_earner_ill) = S_yes, 5, "Primary earner ill"),
        Rule(migration(r), 5, "Migration/Risk area"),
        Rule(Field(r, F_missing) = S_yes, 10, "Missing children in HH"),
        Rule(poor_ration(r), 10, "BPL/Economic hardship") >>)

\* mutant: the bonded-labour rule is reached only when the economic-activity
\* rule did not trigger
calc_child_labour_risk_elif(r) ==
    Result(<<
        Rule(is_out_of_school(r), 15, "Out of school"),
        Rule(is_economically_active(r), 15, "Economic activity"),
        Rule(is_economically_active(r)
                 /\ Contains(S_outside_home_alone, Field(r, F_economic)),
             10, "Works outside alone"),
        Rule(~is_economically_active(r) /\ Field(r, F_bonded) = S_yes,
             20, "Bonded labor"),
        Rule(orphan_or_single_parent(r), 10, "Orphan/Single parent"),
        Rule(poor_ration(r) \/ Field(r, F_earner_ill) = S_yes, 10, "Economic hardship"),
        Rule(migration(r), 10, "Migration/Risk area"),
        Rule(Field(r, F_missing) = S_yes, 10, "Protection issues") >>)

\* mutant: the orphan/single-parent rule carries the weight it has in the
\* marriage scorer
calc_child_labour_risk_marriage_weight(r) ==
    Result(<<
        Rule(is_out_of_school(r), 15, "Out of school"),
        Rule(is_economically_active(r), 15, "Economic activity"),
        Rule(is_economically_active(r)
                 /\ Contains(S_outside_home_alone, Field(r, F_economic)),
             10, "Works outside alone"),
        Rule(Field(r, F_bonded) = S_yes, 20, "Bonded labor"),
        Rule(orphan_or_single_parent(r), 15, "Orphan/Single parent"),
        Rule(poor_ration(r) \/ Field(r, F_earner_ill) = S_yes, 10, "Economic hardship"),
        Rule(migration(r), 10, "Migration/Risk area"),
        Rule(Field(r, F_missing) = S_yes, 10, "Protection issues") >>)

calc_child_labour_risk(r) ==
    Result(<<
        Rule(is_out_of_school(r), 15, "Out of school"),
        Rule(is_economically_active(r), 15, "Economic activity"),
        Rule(is_economically_active(r)
                 /\ Contains(S_outside_home_alone, Field(r, F_economic)),
             10, "Works outside alone"),
        Rule(Field(r, F_bonded) = S_yes, 20, "Bonded labor"),
        Rule(orphan_or_single_parent(r), 10, "Orphan/Single parent"),
        Rule(poor_ration(r) \/ Field(r, F_earner_ill) = S_yes, 10, "Economic hardship"),
        Rule(migration(r), 10, "Migration/Risk area"),
        Rule(Field(r, F_missing) = S_yes, 10, "Protection issues") >>)

\* mutant: the branches of the migration rule are two independent tests
calc_child_trafficking_risk_independent(r) ==
    Result(<<
        IF is_out_of_school(r) /\ is_economically_active(r)
        THEN Rule(TRUE, 25, "Out of school + Economic activity")
        ELSE IF is_out_of_school(r) THEN Rule(TRUE, 15, "Out of school")
        ELSE Rule(is_economically_active(r), 10, "Economic activity"),
        Rule(Field(r, F_hh_migrates) = S_yes, 20, "Migrant family"),
        Rule(Contains(S_yes, Field(r, F_migrated)), 15, "Child migrated"),
        Rule(orphan_or_single_parent(r), 20, "Orphan/Single parent"),
        Rule(poor_ration(r) \/ Field(r, F_earner_ill) = S_yes, 10, "Economic hardship"),
        Rule(\/ Contains(S_agent, Field(r, F_migrated))
             \/ Contains(S_contractor, Field(r, F_migrated))
             \/ Contains(S_labour, Field(r, F_migrated)),
             20, "Trafficking risk (agent migration)"),
        Rule(Field(r, F_missing) = S_yes, 15, "Missing children in HH") >>)

calc_child_trafficking_risk(r) ==
    Result(<<
        IF is_out_of_school(r) /\ is_economically_active(r)
        THEN Rule(TRUE, 25, "Out of school + Economic activity")
        ELSE IF is_out_of_school(r) THEN Rule(TRUE, 15, "Out of school")
        ELSE Rule(is_economically_active(r), 10, "Economic activity"),
        IF Field(r, F_hh_migrates) = S_yes THEN Rule(TRUE, 20, "Migrant family")
        ELSE Rule(Contains(S_yes, Field(r, F_migrated)), 15, "Child migrated"),
        Rule(orphan_or_single_parent(r), 20, "Orphan/Single parent"),
        Rule(poor_ration(r) \/ Field(r, F_earner_ill) = S_yes, 10, "Economic hardship"),
        Rule(\/ Contains(S_agent, Field(r, F_migrated))
             \/ Contains(S_contractor, Field(r, F_migrated))
             \/ Contains(S_labour, Field(r, F_migrated)),
             20, "Trafficking risk (agent migration)"),
        Rule(Field(r, F_missing) = S_yes, 15, "Missing children in HH") >>)

\* mutant: the thresholds are exclusive
get_risk_level_exclusive(score) ==
    IF score > 50 THEN "High"
    ELSE IF score > 25 THEN "Medium"
    ELSE IF score > 0 THEN "Low"
    ELSE "Minimal"

get_risk_level(score) ==
    IF score >= 50 THEN "High"
    ELSE IF score >= 25 THEN "Medium"
    ELSE IF score > 0 THEN "Low"
    ELSE "Minimal"

\* a cell of the row: a column the frame lacks is left out of the row
Cell(field, v) ==
    IF v = Absent THEN [k \in {} |-> Null] ELSE field :> v

\* the rows the scorers are applied to
Rows ==
    { Cell(F_enrollment, e) @@ Cell(F_economic, ec) @@ Cell(F_bonded, b)
        @@ Cell(F_single_parent, sp) @@ Cell(F_grandparent, gp)
        @@ Cell(F_child_headed, ch) @@ Cell(F_earner_ill, ill)
        @@ Cell(F_migrated, mg) @@ Cell(F_hh_migrates, hm)
        @@ Cell(F_missing, ms) @@ Cell(F_ration, rc) :
        e   \in {Str(S_DropOut), Str(S_NeverEnrolled), Str(S_Enrolled)},
        ec  \in {Str(S_Yes), Str(S_YesOutside), Str(S_No)},
        b   \in {Str(S_Yes), NaN},
        sp  \in {Str(S_Yes), Str(S_No)},
        gp  \in {Str(S_Yes), NaN},
        ch  \in {Str(S_yes), Str(S_No)},
        ill \in {Str(S_Yes), Str(S_No)},
        mg  \in {Str(S_Yes), Str(S_YesAgent), Str(S_No)},
        hm  \in {Str(S_Yes), Str(S_No)},
        ms  \in {Str(S_Yes), Absent},
        rc  \in {Str(S_BPL), Str(S_APL), Str(S_NoRation)} }

NoRow ==
    [k \in {} |-> Null]
NoResult ==
    [score |-> 0, factors |-> << >>]
NoLevels ==
    [k \in {} |-> "Minimal"]

\* marriage_results = girls_10_18.apply(calc_child_marriage_risk, axis=1) and
\* the MarriageRiskLevel column, for one row
MarriageRiskAnalysis ==
    /\ rpc = "start"
    /\ marriage' = calc_child_marriage_risk(row)
    /\ levels' = ("marriage" :> get_risk_level(calc_child_marriage_risk(row).score))
    /\ rpc' = "marriage"
    /\ UNCHANGED <<row, labour, trafficking, aggVars, levelVars, extVars>>

LabourRiskAnalysis ==
    /\ rpc = "marriage"
    /\ labour' = calc_child_labour_risk(row)
    /\ levels' = levels @@ ("labour" :> get_risk_level(calc_child_labour_risk(row).score))
    /\ rpc' = "labour"
    /\ UNCHANGED <<row, marriage, trafficking, aggVars, levelVars, extVars>>

TraffickingRiskAnalysis ==
    /\ rpc = "labour"
    /\ trafficking' = calc_child_trafficking_risk(row)
    /\ levels' = levels @@ ("trafficking" :>
                                get_risk_level(calc_child_trafficking_risk(row).score))
    /\ rpc' = "done"
    /\ UNCHANGED <<row, marriage, labour, aggVars, levelVars, extVars>>

\* a direct call of get_risk_level
GetRiskLevel ==
    /\ level_out = "none"
    /\ level_out' = get_risk_level(level_score)
    /\ UNCHANGED <<level_score, aggVars, riskVars, extVars>>

(***************************************************************************)
(* Flattening of the loaded document into all_records.                     *)
(***************************************************************************)
MaxKeys ==
    2
MaxListLen ==
    2

S_Key2023 ==
    <<"C","h","i","l","d","_","A","n","n","u","a","l","_","2","0","2","3",".",
      "x","l","s","x","_","S","h","e","e","t","1">>
S_Key2024 ==
    <<"c","h","i","l","d","-","a","n","n","u","a","l","-","i","n","f","o","r",
      "m","a","t","i","o","n","_","R","e","p","o","r","t","_","2","0","2","4",
      ".","x","l","s","x","_","S","h","e","e","t","1">>
S_Key2025 ==
    <<"C","h","i","l","d","_","A","n","n","u","a","l","_","2","0","2","5",".",
      "x","l","s","x","_","S","h","e","e","t","1">>
S_Key2022 ==
    <<"C","h","i","l","d","_","A","n","n","u","a","l","_","2","0","2","2",".",
      "x","l","s","x","_","S","h","e","e","t","1">>
S_KeySummary ==
    <<"s","u","m","m","a","r","y">>

SourceKeys ==
    {S_Key2023, S_Key2024, S_Key2025, S_Key2022, S_KeySummary}

\* records of a source list: without a Year, with a Year, with a null Year
FlatRecNoYear ==
    ("Region" :> Str(S_North)) @@ ("Gender" :> Str(S_male))
FlatRecYear ==
    ("Region" :> Str(S_South)) @@ ("Year" :> Num(2022))
FlatRecNullYear ==
    ("Region" :> Str(S_North)) @@ ("Year" :> Null)
FlattenRecords ==
    {FlatRecNoYear, FlatRecYear, FlatRecNullYear}

\* a JSON document as json.load returns it: a list of records, or a dict whose
\* items (in file order) pair a key with a list of records or with another value
NoDocument ==
    [kind |-> "none", items |-> << >>]
ListValue(records) ==
    [kind |-> "list", items |-> records]
OtherValue ==
    [kind |-> "other", items |-> << >>]
DictDocument(items) ==
    [kind |-> "dict", items |-> items]

RecordLists ==
    UNION {[1..n -> FlattenRecords] : n \in 0..MaxListLen}
DictValues ==
    {ListValue(l) : l \in RecordLists} \cup {OtherValue}
DictItems ==
    UNION {{s \in [1..n -> [key : SourceKeys, value : DictValues]] :
                \A i, j \in 1..n : i # j => s[i].key # s[j].key}
           : n \in 0..MaxKeys}
Documents ==
    {ListValue(l) : l \in RecordLists} \cup {DictDocument(s) : s \in DictItems}

FlattenScripts ==
    {"add_region_district_data", "add_region_district_education",
     "generate_summary_data"}

\* the year add_region_district_data.py reads off a key; 0 stands for None
ard_key_year(key) ==
    IF Contains(S_2023, key) THEN 2023
    ELSE IF Contains(S_2024, key) THEN 2024
    ELSE 0

\* the year flatten_data reads off a key; 0 stands for None
gs_key_year(key) ==
    IF Contains(S_2023, key) THEN 2023
    ELSE IF Contains(S_2024, key) THEN 2024
    ELSE IF Contains(S_2025, key) THEN 2025
    ELSE 0

\* if year and 'Year' not in record: record['Year'] = year
InjectYear(record, year) ==
    IF year # 0 /\ "Year" \notin DOMAIN record
    THEN record @@ ("Year" :> Num(year))
    ELSE record

InjectAll(records, year) ==
    [i \in 1..Len(records) |-> InjectYear(records[i], year)]

\* the items after the loop has set record['Year'] in place
ard_items_after(items) ==
    [i \in 1..Len(items) |->
        IF items[i].value.kind = "list"
        THEN [key |-> items[i].key,
              value |-> ListValue(InjectAll(items[i].value.items,
                                            ard_key_year(items[i].key)))]
        ELSE items[i]]

gs_items_after(items) ==
    [i \in 1..Len(items) |->
        IF items[i].value.kind = "list"
        THEN [key |-> items[i].key,
              value |-> ListValue(InjectAll(items[i].value.items,
                                            gs_key_year(items[i].key)))]
        ELSE items[i]]

RECURSIVE ConcatLists(_)
\* the records of the list values of the items, in order
ConcatLists(items) ==
    IF items = << >> THEN << >>
    ELSE (IF Head(items).value.kind = "list" THEN Head(items).value.items
          ELSE << >>) \o ConcatLists(Tail(items))

\* add_region_district_data.py lines 30-48 (add_region_district_education.py
\* lines 37-55 are the same code)
RegionDistrictFlatten ==
    /\ pc = "flatten"
    /\ IF raw_data.kind = "dict"
       THEN /\ raw_data' = DictDocument(ard_items_after(raw_data.items))
            /\ all_records' = ConcatLists(ard_items_after(raw_data.items))
       ELSE /\ raw_data' = raw_data
            /\ all_records' = raw_data.items
    /\ pc' = "loop"

AddRegionDistrictDataFlatten ==
    /\ script = "add_region_district_data"
    /\ RegionDistrictFlatten
    /\ UNCHANGED <<script, tableVars, riskVars, levelVars, fileVars, fixVars, moreVars>>

AddRegionDistrictEducationFlatten ==
    /\ script = "add_region_district_education"
    /\ RegionDistrictFlatten
    /\ UNCHANGED <<script, tableVars, riskVars, levelVars, fileVars, fixVars, moreVars>>

\* flatten_data of generate_summary_data.py
FlattenData ==
    /\ script = "generate_summary_data"
    /\ pc = "flatten"
    /\ IF raw_data.kind = "list"
       THEN /\ raw_data' = raw_data
            /\ all_records' = raw_data.items
       ELSE /\ raw_data' = DictDocument(gs_items_after(raw_data.items))
            /\ all_records' = ConcatLists(gs_items_after(raw_data.items))
    /\ pc' = "loop"
    /\ UNCHANGED <<script, tableVars, riskVars, levelVars, fileVars, fixVars, moreVars>>

(***************************************************************************)
(* Files: the runs of the scripts that read and write the data directory.  *)
(***************************************************************************)
F_annual_original ==
    "child_annual_data_ORIGINAL.json"
F_annual ==
    "child_annual_data.json"
F_education_original ==
    "child_education_data_ORIGINAL.json"
F_education ==
    "child_education_data.json"
F_vulnerability ==
    "vulnerability_data.json"
F_advanced_analytics ==
    "advanced_analytics.json"
F_anganwadi ==
    "anganwadi_data.json"
F_school ==
    "school_data.json"

\* the spreadsheets load_data of analyze_protection_risk.py reads, in order
ProtectionSources ==
    <<"Consolidated_Labour_and_Migration_2024.xlsx",
      "Consolidated-labour-and-migration2023.xlsx",
      "HH-2024.xlsx", "HH-2023.xlsx">>

\* per section of regenerate_json_data.py: the two spreadsheets read, the keys
\* their records are stored under, and the file written
RegenerateSections ==
    <<[sources |-> <<"anganwadi-centre-information_2024.xlsx",
                     "anganwadi-centre-information_Report_2023.xlsx">>,
       keys    |-> <<"anganwadi-centre-information_2024.xlsx_anganwadi-centre-information",
                     "anganwadi-centre-information_Report_2023.xlsx_anganwadi-centre-information">>,
       output  |-> F_anganwadi],
      [sources |-> <<"child-annual-information_Report_2024.xlsx",
                     "Child_Annual_2023.xlsx">>,
       keys    |-> <<"child-annual-information_Report_2024.xlsx_child-annual-information",
                     "Child_Annual_2023.xlsx_child-annual-information">>,
       output  |-> F_annual],
      [sources |-> <<"child-education_Consolidated_2024.xlsx",
                     "Child_education_Consolidated-2023.xlsx">>,
       keys    |-> <<"child-education_Consolidated_2024.xlsx_child-education",
                     "Child_education_Consolidated-2023.xlsx_child-education">>,
       output  |-> F_education],
      [sources |-> <<"school-level-information_2024.xlsx",
                     "school-level-information_2023.xlsx">>,
       keys    |-> <<"school-level-information_2024.xlsx_school-level-information",
                     "school-level-information_2023.xlsx_school-level-information">>,
       output  |-> F_school]>>

RegenerateSources ==
    {RegenerateSections[s].sources[y] : s \in 1..Len(RegenerateSections),
                                        y \in 1..2}

JsonFiles ==
    {F_annual_original, F_annual, F_education_original, F_education,
     F_vulnerability, F_advanced_analytics, F_anganwadi, F_school}

FileNames ==
    JsonFiles \cup RegenerateSources
        \cup {ProtectionSources[i] : i \in 1..Len(ProtectionSources)}

\* the content of a file: absent, not parsable, a spreadsheet or JSON source
\* that reads without error, or a JSON object with its top-level keys
Missing ==
    [kind |-> "missing", doc |-> << >>]
Unparsable ==
    [kind |-> "unparsable", doc |-> << >>]
Readable ==
    [kind |-> "source", doc |-> << >>]
JsonFile(doc) ==
    [kind |-> "json", doc |-> doc]

NoFiles ==
    [f \in FileNames |-> Missing]

\* open(path, 'r') and json.load(f) succeed on one that never fails
json_load_always(file) ==
    TRUE

\* open(path, 'r') and json.load(f) succeed
json_load(file) ==
    file.kind \in {"json", "source"}

\* pd.read_excel(path) succeeds
read_excel(file) ==
    file.kind = "source"

\* os.path.exists(path)
exists(file) ==
    file.kind # "missing"

\* documents found in the data directory before a run
S_Old ==
    <<"O","l","d">>
OldTable ==
    S_Old :> [count |-> 5, boys |-> 3, girls |-> 2]
DocSummary ==
    ("totalRecords" :> 5) @@ ("byYear" :> OldTable) @@ ("byState" :> OldTable)
        @@ ("byRegion" :> OldTable)
        @@ ("regionDistrictMap" :> (S_Old :> <<S_D1>>))
DocRegenerated ==
    (RegenerateSections[2].keys[1] :> "records")
        @@ (RegenerateSections[2].keys[2] :> "records")
DocEmpty ==
    << >>
DocCharts ==
    ("genderDistribution" :> "stale") @@ ("enrollmentTrends" :> "stale")
        @@ ("summaryStats" :> "stale")
DocVulnerability ==
    ("protectionVulnerability" :> "stale") @@ ("nutritionStatus" :> "stale")

ExistingSummaries ==
    {Missing, Unparsable, JsonFile(DocSummary), JsonFile(DocRegenerated),
     JsonFile(DocEmpty)}
SourceStates ==
    {Missing, Unparsable, Readable}

\* the records the source documents of these runs hold
PersistRecords ==
    {RecNorthMale, RecSouthBoy}

FileScripts ==
    {"add_region_district_data", "add_region_district_education",
     "generate_summary_data", "analyze_protection_risk",
     "update_percentage_charts", "regenerate_json_data"}

OriginalOf(s) ==
    IF s = "add_region_district_data" THEN F_annual_original
    ELSE F_education_original

ExistingOf(s) ==
    IF s = "add_region_district_data" THEN F_annual
    ELSE IF s = "add_region_district_education" THEN F_education
    ELSE IF s = "analyze_protection_risk" THEN F_vulnerability
    ELSE F_advanced_analytics

\* the keys the region/district scripts assign in the loaded document
AggregationKeys ==
    {"byRegion", "byDistrict", "regionYearData", "districtYearData",
     "regionDistrictMap"}

\* the freshly computed value of an aggregation key
Computed(k) ==
    IF k = "byRegion" THEN byRegion
    ELSE IF k = "byDistrict" THEN byDistrict
    ELSE IF k = "regionYearData" THEN regionYearData
    ELSE IF k = "districtYearData" THEN districtYearData
    ELSE SerializeMap(regionDistrictMap)

\* a document rebuilt from the aggregation keys alone
UpdateSummary_fresh(summary_data) ==
    [k \in AggregationKeys |-> Computed(k)]

\* summary_data['byRegion'] = dict(byRegion) ... summary_data['regionDistrictMap'] = ...
UpdateSummary(summary_data) ==
    [k \in DOMAIN summary_data \cup AggregationKeys |->
        IF k \in AggregationKeys THEN Computed(k) ELSE summary_data[k]]

\* json.load of the *_ORIGINAL.json file at the top of a region/district script
LoadOriginal ==
    /\ script \in {"add_region_district_data", "add_region_district_education"}
    /\ pc = "start"
    /\ pc' = IF json_load(files[OriginalOf(script)]) THEN "loop" ELSE "raised"
    /\ UNCHANGED <<script, tableVars, riskVars, levelVars, flattenVars, fileVars, fixVars, moreVars>>

\* the end of a region/district script: load the existing document, assign the
\* aggregation keys, write it back, print the summary
PersistRegionDistrict ==
    /\ script \in {"add_region_district_data", "add_region_district_education"}
    /\ pc = "done"
    /\ IF json_load(files[ExistingOf(script)])
       THEN LET summary_data == UpdateSummary(files[ExistingOf(script)].doc)
            IN  /\ files' = [files EXCEPT ![ExistingOf(script)] = JsonFile(summary_data)]
                /\ written' = written \cup {ExistingOf(script)}
                \* print(f"Total Records: {summary_data['totalRecords']:,}")
                /\ pc' = IF "totalRecords" \in DOMAIN summary_data
                         THEN "finished" ELSE "raised"
       ELSE /\ pc' = "raised"
            /\ UNCHANGED <<files, written>>
    /\ UNCHANGED <<script, tableVars, riskVars, levelVars, flattenVars, files0, fixVars, moreVars>>

\* the summary generate_child_annual_summary returns (the tables of the model)
AnnualSummary ==
    ("totalRecords" :> Len(processed)) @@ ("byYear" :> byYear)
        @@ ("byRegion" :> byRegion) @@ ("byDistrict" :> byDistrict)
        @@ ("regionYearData" :> regionYearData)
        @@ ("districtYearData" :> districtYearData)
        @@ ("regionDistrictMap" :> SerializeMap(regionDistrictMap))

\* the summary generate_child_education_summary returns
EducationSummary ==
    ("totalRecords" :> Len(processed)) @@ ("byYear" :> byYear)
        @@ ("byAttendanceRate" :> byAttendanceRate)
        @@ ("byPerformance" :> byPerformance)

ResetTables ==
    /\ processed' = << >>
    /\ byRegion' = EmptyTable
    /\ byDistrict' = EmptyTable
    /\ regionYearData' = EmptyNested
    /\ districtYearData' = EmptyNested
    /\ regionDistrictMap' = EmptyMap
    /\ byYear' = EmptyTable
    /\ byAttendanceRate' = ZeroAttendance
    /\ byPerformance' = EmptyCounts

\* main of generate_summary_data.py, child annual part up to the call of
\* generate_child_annual_summary
MainLoadAnnual ==
    /\ script = "generate_summary_data"
    /\ pc = "start"
    /\ IF ~exists(files[F_annual_original])
       THEN /\ pc' = "education"
            /\ script' = script
       ELSE IF json_load(files[F_annual_original])
       THEN /\ pc' = "loop"
            /\ script' = "generate_child_annual_summary"
       ELSE /\ pc' = "raised"
            /\ script' = script
    /\ UNCHANGED <<tableVars, riskVars, levelVars, flattenVars, fileVars, fixVars, moreVars>>

\* main: save_json_file(summary_path, child_annual_summary)
MainSaveAnnual ==
    /\ script = "generate_child_annual_summary"
    /\ pc = "done"
    /\ files' = [files EXCEPT ![F_annual] = JsonFile(AnnualSummary)]
    /\ written' = written \cup {F_annual}
    /\ script' = "generate_summary_data"
    /\ pc' = "education"
    /\ ResetTables
    /\ UNCHANGED <<riskVars, levelVars, flattenVars, files0, fixVars, moreVars>>

\* main, child education part up to the call of generate_child_education_summary
MainLoadEducation ==
    /\ script = "generate_summary_data"
    /\ pc = "education"
    /\ IF ~exists(files[F_education_original])
       THEN /\ pc' = "finished"
            /\ script' = script
       ELSE IF json_load(files[F_education_original])
       THEN /\ pc' = "loop"
            /\ script' = "generate_child_education_summary"
       ELSE /\ pc' = "raised"
            /\ script' = script
    /\ UNCHANGED <<tableVars, riskVars, levelVars, flattenVars, fileVars, fixVars, moreVars>>

\* main: save_json_file(summary_path, child_edu_summary)
MainSaveEducation ==
    /\ script = "generate_child_education_summary"
    /\ pc = "done"
    /\ files' = [files EXCEPT ![F_education] = JsonFile(EducationSummary)]
    /\ written' = written \cup {F_education}
    /\ script' = "generate_summary_data"
    /\ pc' = "finished"
    /\ ResetTables
    /\ UNCHANGED <<riskVars, levelVars, flattenVars, files0, fixVars, moreVars>>

\* analyze_protection_risks: load_data reads the four spreadsheets
ProtectionLoadData ==
    /\ script = "analyze_protection_risk"
    /\ pc = "start"
    /\ pc' = IF \A i \in 1..Len(ProtectionSources) :
                    read_excel(files[ProtectionSources[i]])
             THEN "analysed" ELSE "raised"
    /\ UNCHANGED <<script, tableVars, riskVars, levelVars, flattenVars, fileVars, fixVars, moreVars>>

ProtectionKeys ==
    {"protectionVulnerability", "protectionByRegion", "protectionByAgeBand",
     "sampleProtectionCases"}

\* update_json_with_protection_data
UpdateJsonWithProtectionData ==
    /\ script = "analyze_protection_risk"
    /\ pc = "analysed"
    /\ IF json_load(files[F_vulnerability])
       THEN LET data == files[F_vulnerability].doc
            IN  /\ files' = [files EXCEPT ![F_vulnerability] = JsonFile(
                        [k \in DOMAIN data \cup ProtectionKeys |->
                            IF k \in ProtectionKeys THEN "fresh" ELSE data[k]])]
                /\ written' = written \cup {F_vulnerability}
                /\ pc' = "finished"
       ELSE /\ pc' = "raised"
            /\ UNCHANGED <<files, written>>
    /\ UNCHANGED <<script, tableVars, riskVars, levelVars, flattenVars, files0, fixVars, moreVars>>

ChartKeys ==
    {"genderDistribution", "enrollmentTrends", "stateWiseComparison"}

\* update_percentage_charts.py: the charts are built from constants, then merged
\* into advanced_analytics.json
UpdatePercentageCharts ==
    /\ script = "update_percentage_charts"
    /\ pc = "start"
    /\ IF json_load(files[F_advanced_analytics])
       THEN LET data == files[F_advanced_analytics].doc
            IN  /\ files' = [files EXCEPT ![F_advanced_analytics] = JsonFile(
                        [k \in DOMAIN data \cup ChartKeys |->
                            IF k \in ChartKeys THEN "fresh" ELSE data[k]])]
                /\ written' = written \cup {F_advanced_analytics}
                /\ pc' = "finished"
       ELSE /\ pc' = "raised"
            /\ UNCHANGED <<files, written>>
    /\ UNCHANGED <<script, tableVars, riskVars, levelVars, flattenVars, files0, fixVars, moreVars>>

\* the dict one section of regenerate_json_data.py collects: a key for each
\* spreadsheet whose read did not raise
SectionData(section) ==
    LET read == {y \in 1..2 : read_excel(files[section.sources[y]])}
    IN  [k \in {section.keys[y] : y \in read} |-> "records"]

\* the position of regenerate_json_data.py before each of its sections
SectionPc ==
    <<"anganwadi", "child_annual", "child_education", "school">>

\* one section of regenerate_json_data.py: two guarded reads, then the write
RegenerateSection(s) ==
    /\ script = "regenerate_json_data"
    /\ pc = SectionPc[s]
    /\ files' = [files EXCEPT ![RegenerateSections[s].output] =
                    JsonFile(SectionData(RegenerateSections[s]))]
    /\ written' = written \cup {RegenerateSections[s].output}
    /\ pc' = IF s < Len(RegenerateSections) THEN SectionPc[s + 1] ELSE "finished"
    /\ UNCHANGED <<script, tableVars, riskVars, levelVars, flattenVars, files0, fixVars, moreVars>>

RegenerateAnganwadi ==
    RegenerateSection(1)
RegenerateChildAnnual ==
    RegenerateSection(2)
RegenerateChildEducation ==
    RegenerateSection(3)
RegenerateSchool ==
    RegenerateSection(4)

(***************************************************************************)
(* fix_json_nan.py: textual repair of the JSON files of the data directory. *)
(***************************************************************************)
MaxFiles ==
    3

S_NaN ==
    <<"N","a","N">>
S_Infinity ==
    <<"I","n","f","i","n","i","t","y">>
S_NegInfinity ==
    <<"-","I","n","f","i","n","i","t","y">>
S_null ==
    <<"n","u","l","l">>
S_true ==
    <<"t","r","u","e">>
S_false ==
    <<"f","a","l","s","e">>
S_dot_json ==
    <<".","j","s","o","n">>
S_schema_analysis ==
    <<"s","c","h","e","m","a","_","a","n","a","l","y","s","i","s",".","j","s",
      "o","n">>
S_a_json ==
    <<"a",".","j","s","o","n">>
S_b_json ==
    <<"b",".","j","s","o","n">>
S_notes_txt ==
    <<"n","o","t","e","s",".","t","x","t">>
S_One ==
    <<"1">>
S_QuotedX ==
    <<"\"", "x", "\"">>

\* \w of the re module on the characters of the model
IsWordChar(c) ==
    \/ \E i \in DOMAIN UpperChars : UpperChars[i] = c
    \/ \E i \in DOMAIN LowerChars : LowerChars[i] = c
    \/ \E i \in DOMAIN DigitChars : DigitChars[i] = c
    \/ c = "_"

IsWordAt(s, i) ==
    i \in 1..Len(s) /\ IsWordChar(s[i])

\* \b matches between s[i - 1] and s[i]
WordBoundary(s, i) ==
    IsWordAt(s, i - 1) # IsWordAt(s, i)

\* the pattern \b<word>\b matches s at position i
MatchAt(word, s, i) ==
    /\ i + Len(word) - 1 <= Len(s)
    /\ SubSeq(s, i, i + Len(word) - 1) = word
    /\ WordBoundary(s, i)
    /\ WordBoundary(s, i + Len(word))

RECURSIVE SubFrom(_, _, _, _)
\* re.sub(r'\b<word>\b', repl, s) from position i on: leftmost matches, not
\* overlapping
SubFrom(word, repl, s, i) ==
    IF i > Len(s) THEN << >>
    ELSE IF MatchAt(word, s, i)
    THEN repl \o SubFrom(word, repl, s, i + Len(word))
    ELSE <<s[i]>> \o SubFrom(word, repl, s, i + 1)

re_sub(word, repl, s) ==
    SubFrom(word, repl, s, 1)

\* the decoder of the json module on the texts of the model. Each Parse
\* operator takes the position where an item starts and gives the position
\* after it, or 0 where the decoder raises JSONDecodeError.
StartsAt(s, i, word) ==
    i + Len(word) - 1 <= Len(s) /\ SubSeq(s, i, i + Len(word) - 1) = word

IsDigitAt(s, i) ==
    i \in 1..Len(s) /\ \E d \in DOMAIN DigitChars : DigitChars[d] = s[i]

RECURSIVE SkipWhitespace(_, _)
SkipWhitespace(s, i) ==
    IF i <= Len(s) /\ IsSpace(s[i]) THEN SkipWhitespace(s, i + 1) ELSE i

RECURSIVE SkipDigits(_, _)
SkipDigits(s, i) ==
    IF IsDigitAt(s, i) THEN SkipDigits(s, i + 1) ELSE i

\* NUMBER_RE, integers only: -?(0|[1-9]\d*)
ParseNumber(s, i) ==
    LET j == IF i <= Len(s) /\ s[i] = "-" THEN i + 1 ELSE i
    IN  IF ~IsDigitAt(s, j) THEN 0
        ELSE IF s[j] = "0" THEN j + 1
        ELSE SkipDigits(s, j)

RECURSIVE StringEnd(_, _)
\* the position after the closing quote of a string whose body starts at i
StringEnd(s, i) ==
    IF i > Len(s) THEN 0
    ELSE IF s[i] = "\"" THEN i + 1
    ELSE StringEnd(s, i + 1)

RECURSIVE ParseValue(_, _)
RECURSIVE ParseElements(_, _)
RECURSIVE ParseMembers(_, _)

\* scan_once
ParseValue(s, i) ==
    IF i > Len(s) THEN 0
    ELSE IF s[i] = "\"" THEN StringEnd(s, i + 1)
    ELSE IF s[i] = "{" THEN
        (LET j == SkipWhitespace(s, i + 1)
         IN  IF j <= Len(s) /\ s[j] = "}" THEN j + 1 ELSE ParseMembers(s, j))
    ELSE IF s[i] = "[" THEN
        (LET j == SkipWhitespace(s, i + 1)
         IN  IF j <= Len(s) /\ s[j] = "]" THEN j + 1 ELSE ParseElements(s, j))
    ELSE IF StartsAt(s, i, S_null) THEN i + Len(S_null)
    ELSE IF StartsAt(s, i, S_true) THEN i + Len(S_true)
    ELSE IF StartsAt(s, i, S_false) THEN i + Len(S_false)
    ELSE IF ParseNumber(s, i) # 0 THEN ParseNumber(s, i)
    ELSE IF StartsAt(s, i, S_NaN) THEN i + Len(S_NaN)
    ELSE IF StartsAt(s, i, S_Infinity) THEN i + Len(S_Infinity)
    ELSE IF StartsAt(s, i, S_NegInfinity) THEN i + Len(S_NegInfinity)
    ELSE 0

\* the elements of an array from position i on, up to and including ']'
ParseElements(s, i) ==
    LET e == ParseValue(s, i)
        j == SkipWhitespace(s, e)
    IN  IF e = 0 \/ j > Len(s) THEN 0
        ELSE IF s[j] = "]" THEN j + 1
        ELSE IF s[j] = "," THEN ParseElements(s, SkipWhitespace(s, j + 1))
        ELSE 0

\* the members of an object from position i on, up to and including '}'
ParseMembers(s, i) ==
    LET k == IF i <= Len(s) /\ s[i] = "\"" THEN StringEnd(s, i + 1) ELSE 0
        c == SkipWhitespace(s, k)
        e == IF k = 0 \/ c > Len(s) \/ s[c] # ":" THEN 0
             ELSE ParseValue(s, SkipWhitespace(s, c + 1))
        j == SkipWhitespace(s, e)
    IN  IF e = 0 \/ j > Len(s) THEN 0
        ELSE IF s[j] = "}" THEN j + 1
        ELSE IF s[j] = "," THEN ParseMembers(s, SkipWhitespace(s, j + 1))
        ELSE 0

\* json.load(f) does not raise JSONDecodeError
json_loads(s) ==
    LET e == ParseValue(s, SkipWhitespace(s, 1))
    IN  e # 0 /\ SkipWhitespace(s, e) > Len(s)

\* the three substitutions of fix_json_file, in its order
Repaired(text) ==
    re_sub(S_NegInfinity, S_null,
           re_sub(S_Infinity, S_null,
                  re_sub(S_NaN, S_null, text)))

\* fix_json_file without its except clause
fix_json_file_uncaught(text) ==
    [content |-> Repaired(text),
     result  |-> IF json_loads(Repaired(text)) THEN "True" ELSE "raised"]

\* fix_json_file: the text written back and the value returned
fix_json_file(text) ==
    [content |-> Repaired(text),
     result  |-> IF json_loads(Repaired(text)) THEN "True" ELSE "False"]

\* str.endswith
EndsWith(s, suffix) ==
    Len(s) >= Len(suffix) /\ SubSeq(s, Len(s) - Len(suffix) + 1, Len(s)) = suffix

\* filename.endswith('.json') and filename != 'schema_analysis.json'
Selected(filename) ==
    EndsWith(filename, S_dot_json) /\ filename # S_schema_analysis

\* one iteration of the loop over os.listdir(data_dir)
FixJsonStep ==
    /\ script = "fix_json_nan"
    /\ pc = "batch"
    /\ position <= Len(listing)
    /\ LET filename == listing[position]
           fixed    == fix_json_file(content[filename])
       IN  IF Selected(filename)
           THEN /\ content' = [content EXCEPT ![filename] = fixed.content]
                /\ IF fixed.result = "raised"
                   THEN /\ pc' = "raised"
                        /\ UNCHANGED <<position, report>>
                   ELSE /\ report' = Append(report, [file |-> filename,
                                                     ok |-> fixed.result = "True"])
                        /\ position' = position + 1
                        /\ pc' = pc
           ELSE /\ position' = position + 1
                /\ UNCHANGED <<content, report, pc>>
    /\ UNCHANGED <<script, tableVars, riskVars, levelVars, flattenVars, fileVars,
                   listing, content0, shape0, moreVars>>

\* the listing is exhausted: print("All JSON files fixed!")
FixJsonEnd ==
    /\ script = "fix_json_nan"
    /\ pc = "batch"
    /\ position > Len(listing)
    /\ pc' = "finished"
    /\ UNCHANGED <<script, tableVars, riskVars, levelVars, flattenVars, fileVars,
                   fixVars, moreVars>>

\* the texts of the model: an array of one or two values, an object with one
\* member, and an array cut off after its first value
Shapes ==
    {"single", "pair", "object", "cut"}
JsonValues ==
    {S_NaN, S_Infinity, S_NegInfinity, S_One, S_QuotedX}
Render(shape, v, w) ==
    IF shape = "single" THEN <<"[">> \o v \o <<"]">>
    ELSE IF shape = "pair" THEN <<"[">> \o v \o <<",", " ">> \o w \o <<"]">>
    ELSE IF shape = "object"
    THEN <<"{", "\"", "a", "\"", ":", " ">> \o v \o <<"}">>
    ELSE <<"[">> \o v \o <<",">>
TextShapes ==
    {[shape |-> "pair", v |-> v, w |-> w] :
        v \in JsonValues, w \in {S_Infinity, S_One}}
        \cup {[shape |-> s, v |-> v, w |-> S_One] :
                s \in {"single", "object"}, v \in JsonValues}
        \cup {[shape |-> "cut", v |-> v, w |-> S_One] : v \in {S_NaN, S_One}}
DirectoryNames ==
    {S_a_json, S_b_json, S_schema_analysis, S_notes_txt}
Listings ==
    UNION {{l \in [1..n -> DirectoryNames] : \A i, j \in 1..n : i # j => l[i] # l[j]}
           : n \in 0..MaxFiles}

(***************************************************************************)
(* Inputs of the education summary: records that differ in attendance rate. *)
(***************************************************************************)
S_abc ==
    <<"a","b","c">>
S_80 ==
    <<"8","0">>
S_90pct ==
    <<"9","0","%">>
S_Good ==
    <<"G","o","o","d">>

EduBase ==
    ("Year" :> Num(2023)) @@ ("Gender" :> Str(S_male))
        @@ ("Performance" :> Str(S_Good))
EduAbsent ==
    EduBase
EduNull ==
    EduBase @@ ("Attendance Rate" :> Null)
EduNaN ==
    EduBase @@ ("Attendance Rate" :> NaN)
EduExcellent ==
    EduBase @@ ("Attendance Rate" :> Num(95))
EduGoodString ==
    ("Year" :> Num(2024)) @@ ("Gender" :> Str(S_girl))
        @@ ("AttendanceRate" :> Str(S_80))
EduAverage ==
    EduBase @@ ("Attendance Rate" :> Num(60))
EduPoor ==
    EduBase @@ ("AttendanceRate" :> Num(30))
EduMalformed ==
    EduBase @@ ("Attendance Rate" :> Str(S_abc))
EduPercent ==
    ("Year" :> Num(2024)) @@ ("Gender" :> Str(S_girl))
        @@ ("AttendanceRate" :> Str(S_90pct))
EducationRecords ==
    {EduAbsent, EduNull, EduNaN, EduExcellent, EduGoodString, EduAverage,
     EduPoor, EduMalformed, EduPercent}

(***************************************************************************)
(* analyze_protection_risk.py: the scored frames and the document built    *)
(* from them.                                                              *)
(***************************************************************************)
MaxRows ==
    2

S_Female ==
    <<"F","e","m","a","l","e">>

S_Age0_5 ==
    <<"0","-","5","Y">>

S_Age6_10 ==
    <<"6","-","1","0","Y">>

S_Age11_14 ==
    <<"1","1","-","1","4","Y">>

S_Age15_18 ==
    <<"1","5","-","1","8","Y">>

\* a row of labor_df: the two columns the filters read and the cells the
\* scorers read (a cell left out is a column value the scorers do not match)
FrameRow(gender, age, enrollment, economic, bonded, single_parent, ration, missing) ==
    ("Gender" :> Str(gender)) @@ ("Age Band" :> Str(age))
        @@ (F_enrollment :> Str(enrollment)) @@ (F_economic :> Str(economic))
        @@ (F_bonded :> Str(bonded)) @@ (F_single_parent :> Str(single_parent))
        @@ (F_ration :> Str(ration)) @@ (F_missing :> Str(missing))

\* rows whose scores fall in every band and on the thresholds 25 and 50, girls
\* and boys, inside and outside the age bands, and a gender in another case
FrameRows ==
    { FrameRow(S_female, S_Age11_14, S_Enrolled, S_No, S_No, S_No, S_APL, S_No),
      FrameRow(S_female, S_Age15_18, S_DropOut, S_No, S_No, S_No, S_APL, S_No),
      FrameRow(S_female, S_Age11_14, S_DropOut, S_No, S_No, S_No, S_BPL, S_No),
      FrameRow(S_female, S_Age15_18, S_DropOut, S_No, S_No, S_Yes, S_BPL, S_Yes),
      FrameRow(S_male, S_Age6_10, S_DropOut, S_Yes, S_No, S_No, S_APL, S_No),
      FrameRow(S_male, S_Age15_18, S_DropOut, S_Yes, S_Yes, S_No, S_APL, S_No),
      FrameRow(S_Female, S_Age11_14, S_DropOut, S_No, S_No, S_No, S_APL, S_No),
      FrameRow(S_female, S_Age0_5, S_NeverEnrolled, S_No, S_No, S_Yes, S_BPL, S_No) }

RECURSIVE SelectRows(_, _)
\* frame[mask]: the rows of the frame the mask keeps, in order
SelectRows(frame, keep) ==
    IF frame = << >> THEN << >>
    ELSE (IF Head(frame) \in keep THEN <<Head(frame)>> ELSE << >>)
             \o SelectRows(Tail(frame), keep)

\* (labor_df['Gender'] == 'female') & labor_df['Age Band'].isin(['11-14Y', '15-18Y'])
is_girl_10_18(r) ==
    /\ r["Gender"] = Str(S_female)
    /\ r["Age Band"] \in {Str(S_Age11_14), Str(S_Age15_18)}

\* labor_df['Age Band'].isin(['6-10Y', '11-14Y', '15-18Y'])
is_child_6_18(r) ==
    r["Age Band"] \in {Str(S_Age6_10), Str(S_Age11_14), Str(S_Age15_18)}

\* the Marriage* columns added to a row of girls_10_18
MarriageColumns(r) ==
    [row |-> r,
     MarriageRiskScore |-> calc_child_marriage_risk(r).score,
     MarriageRiskLevel |-> get_risk_level(calc_child_marriage_risk(r).score)]

\* the Labour* and Trafficking* columns added to a row of children_6_18
ChildColumns(r) ==
    [row |-> r,
     LabourRiskScore |-> calc_child_labour_risk(r).score,
     LabourRiskLevel |-> get_risk_level(calc_child_labour_risk(r).score),
     TraffickingRiskScore |-> calc_child_trafficking_risk(r).score,
     TraffickingRiskLevel |-> get_risk_level(calc_child_trafficking_risk(r).score)]

\* analyze_protection_risks: the two filters and the three apply() passes
AnalyzeProtectionRisks ==
    /\ script = "analyze_protection_risk"
    /\ pc = "analyze"
    /\ LET girls    == SelectRows(labor_df, {r \in FrameRows : is_girl_10_18(r)})
           children == SelectRows(labor_df, {r \in FrameRows : is_child_6_18(r)})
       IN  /\ girls_10_18' = [i \in 1..Len(girls) |-> MarriageColumns(girls[i])]
           /\ children_6_18' = [i \in 1..Len(children) |-> ChildColumns(children[i])]
    /\ pc' = "update"
    /\ UNCHANGED <<script, tableVars, riskVars, levelVars, flattenVars, fileVars,
                   fixVars, labor_df, protectionVulnerability, backupVars, chartVars>>

\* (frame[column] == value).sum()
CountEqual(frame, column, value) ==
    Cardinality({i \in 1..Len(frame) : frame[i][column] = value})

\* mutant: the band '1-24' includes 25
InBand_inclusive(band, score) ==
    CASE band = "0" -> score = 0
      [] band = "1-24" -> score > 0 /\ score <= 25
      [] band = "25-49" -> score >= 25 /\ score < 50
      [] band = "50+" -> score >= 50

\* the four masks of byScoreBand
InBand(band, score) ==
    CASE band = "0" -> score = 0
      [] band = "1-24" -> score > 0 /\ score < 25
      [] band = "25-49" -> score >= 25 /\ score < 50
      [] band = "50+" -> score >= 50

ScoreBands ==
    {"0", "1-24", "25-49", "50+"}

RECURSIVE MaxOf(_)
\* frame[column].max() of a non-empty set of scores
MaxOf(S) ==
    LET x == CHOOSE y \in S : TRUE
    IN  IF S = {x} THEN x
        ELSE IF x >= MaxOf(S \ {x}) THEN x ELSE MaxOf(S \ {x})

\* frame[column].value_counts().to_dict(): the levels that occur, with counts
value_counts(frame, column) ==
    [level \in {frame[i][column] : i \in 1..Len(frame)} |->
        CountEqual(frame, column, level)]

\* one entry of data['protectionVulnerability'] (avgScore, a float, left out)
RiskCategory(frame, score, level) ==
    [totalAtRisk |-> Cardinality({i \in 1..Len(frame) : frame[i][score] > 0}),
     highRisk    |-> CountEqual(frame, level, "High"),
     mediumRisk  |-> CountEqual(frame, level, "Medium"),
     lowRisk     |-> CountEqual(frame, level, "Low"),
     maxScore    |-> MaxOf({frame[i][score] : i \in 1..Len(frame)}),
     byRiskLevel |-> value_counts(frame, level),
     byScoreBand |-> [band \in ScoreBands |->
                         Cardinality({i \in 1..Len(frame) :
                                         InBand(band, frame[i][score])})]]

\* update_json_with_protection_data, lines 377-414: the document entry built
\* from the two frames. The maximum of a column without rows is NaN and
\* int(NaN) raises ValueError while the dict literal is evaluated, before
\* data['protectionVulnerability'] is assigned
ProtectionVulnerabilityUpdate ==
    /\ script = "analyze_protection_risk"
    /\ pc = "update"
    /\ IF girls_10_18 = << >> \/ children_6_18 = << >>
       THEN /\ pc' = "raised"
            /\ UNCHANGED protectionVulnerability
       ELSE /\ protectionVulnerability' =
                   ("childMarriage" :>
                        RiskCategory(girls_10_18, "MarriageRiskScore",
                                     "MarriageRiskLevel"))
                   @@ ("childLabour" :>
                        RiskCategory(children_6_18, "LabourRiskScore",
                                     "LabourRiskLevel"))
                   @@ ("childTrafficking" :>
                        RiskCategory(children_6_18, "TraffickingRiskScore",
                                     "TraffickingRiskLevel"))
            /\ pc' = "finished"
    /\ UNCHANGED <<script, tableVars, riskVars, levelVars, flattenVars, fileVars,
                   fixVars, labor_df, girls_10_18, children_6_18, backupVars,
                   chartVars>>

(***************************************************************************)
(* The scripts that replace the raw data files of public/data:             *)
(* create_sample_data.py, quick_fix_data.py, create_sampled_data.py and    *)
(* the two sampled sections of regenerate_json_data.py.                    *)
(***************************************************************************)
\* SAMPLE_SIZE of create_sample_data.py and regenerate_json_data.py (500 in
\* the source) and the sample_size create_sampled_data.py passes (1000),
\* scaled to the lists of the model
SAMPLE_SIZE ==
    1
SAMPLED_SIZE ==
    2

F_annual_backup ==
    "child_annual_data_BACKUP.json"
F_education_backup ==
    "child_education_data_BACKUP.json"

\* files_to_sample of create_sample_data.py, the order in which each of the
\* scripts handles the two files
files_to_sample ==
    <<F_annual, F_education>>

DataDirFiles ==
    {F_annual, F_annual_original, F_annual_backup,
     F_education, F_education_original, F_education_backup}

\* input_path.replace('.json', '_ORIGINAL.json')
OriginalPath(f) ==
    IF f = F_annual THEN F_annual_original ELSE F_education_original

\* backup1 and backup2 of quick_fix_data.py
BackupPath(f) ==
    IF f = F_annual THEN F_annual_backup ELSE F_education_backup

\* the section of regenerate_json_data.py that writes the file
SectionOf(f) ==
    IF f = F_annual THEN RegenerateSections[2] ELSE RegenerateSections[3]

\* the full raw datasets: a list of records under the key of each year
FullDataset(f) ==
    IF f = F_annual
    THEN (SectionOf(f).keys[2] :> <<RecNorthMale, RecNorthFemale>>)
             @@ (SectionOf(f).keys[1] :> <<RecSouthBoy>>)
    ELSE (SectionOf(f).keys[2] :> <<RecNorthFemale>>)
             @@ (SectionOf(f).keys[1] :> <<RecSouthBoy, RecNorthMale>>)

\* child_annual and child_education of quick_fix_data.py: both keys, no records
MinimalSample(f) ==
    (SectionOf(f).keys[2] :> << >>) @@ (SectionOf(f).keys[1] :> << >>)

\* random.sample(records, k): k records at distinct positions, in any order
random_sample(records, k) ==
    {[i \in 1..k |-> records[p[i]]] :
        p \in {q \in [1..k -> 1..Len(records)] :
                  \A i, j \in 1..k : i # j => q[i] # q[j]}}

\* the documents whose list under each key is one of the lists choices(key)
DocumentsOf(doc, choices(_)) ==
    {d \in [DOMAIN doc -> UNION {choices(k) : k \in DOMAIN doc}] :
        \A k \in DOMAIN doc : d[k] \in choices(k)}

\* sample_data of create_sample_data.py: a list longer than sample_size is
\* sampled, a shorter one is kept
sample_data(doc, sample_size) ==
    LET choices(k) == IF Len(doc[k]) > sample_size
                      THEN random_sample(doc[k], sample_size)
                      ELSE {doc[k]}
    IN  DocumentsOf(doc, choices)

\* create_sample of create_sampled_data.py: every non-empty list is replaced
\* by a sample of min(sample_size, len(records)) of its records
create_sample(doc, sample_size) ==
    LET choices(k) == IF Len(doc[k]) > 0
                      THEN random_sample(doc[k], Min(sample_size, Len(doc[k])))
                      ELSE {doc[k]}
    IN  DocumentsOf(doc, choices)

\* os.rename(src, dst)
rename(dir, src, dst) ==
    [dir EXCEPT ![dst] = dir[src], ![src] = Missing]

\* one iteration of the loop of create_sample_data.py (lines 62-76): the
\* directories it can leave
CreateSampleFile(dir, f) ==
    IF ~exists(dir[f]) THEN {dir}
    ELSE LET moved == ~exists(dir[OriginalPath(f)])
             dir1  == IF moved THEN rename(dir, f, OriginalPath(f)) ELSE dir
             input == IF moved THEN OriginalPath(f) ELSE f
         IN  {[dir1 EXCEPT ![f] = JsonFile(d)] :
                 d \in sample_data(dir1[input].doc, SAMPLE_SIZE)}

\* mutant: the file is renamed to the backup whenever it exists
QuickFixFile_always(dir, f) ==
    LET dir1 == IF exists(dir[f]) THEN rename(dir, f, BackupPath(f)) ELSE dir
    IN  [dir1 EXCEPT ![f] = JsonFile(MinimalSample(f))]

\* quick_fix_data.py for one file (lines 17-23, 33-39): the guarded rename,
\* then the minimal document is written
QuickFixFile(dir, f) ==
    LET dir1 == IF ~exists(dir[BackupPath(f)]) /\ exists(dir[f])
                THEN rename(dir, f, BackupPath(f)) ELSE dir
    IN  [dir1 EXCEPT ![f] = JsonFile(MinimalSample(f))]

\* one call of create_sample of create_sampled_data.py: the directories it can
\* leave; open() of a missing backup raises and ends the script
CreateSampledFile(dir, f) ==
    IF ~exists(dir[BackupPath(f)]) THEN {[raised |-> TRUE, dir |-> dir]}
    ELSE {[raised |-> FALSE, dir |-> [dir EXCEPT ![f] = JsonFile(d)]] :
             d \in create_sample(dir[BackupPath(f)].doc, SAMPLED_SIZE)}

\* sections 2 and 3 of regenerate_json_data.py on spreadsheets that hold the
\* raw dataset and read without error: dataframe_to_records(df, SAMPLE_SIZE)
RegenerateFile(dir, f) ==
    {[dir EXCEPT ![f] = JsonFile(d)] : d \in sample_data(FullDataset(f), SAMPLE_SIZE)}

\* what a run leaves alone: everything but the directory and the script name
BackupFrame ==
    /\ pc' = pc
    /\ UNCHANGED <<tableVars, riskVars, levelVars, flattenVars, fileVars,
                   fixVars, bandVars, chartVars>>

\* a run of create_sample_data.py
CreateSampleData ==
    /\ pc = "shell"
    /\ script' = "create_sample_data"
    /\ data_dir0' = data_dir
    /\ \E d1 \in CreateSampleFile(data_dir, files_to_sample[1]) :
          data_dir' \in CreateSampleFile(d1, files_to_sample[2])
    /\ BackupFrame

\* a run of quick_fix_data.py
QuickFixData ==
    /\ pc = "shell"
    /\ script' = "quick_fix_data"
    /\ data_dir0' = data_dir
    /\ data_dir' = QuickFixFile(QuickFixFile(data_dir, F_annual), F_education)
    /\ BackupFrame

\* a run of create_sampled_data.py
CreateSampledData ==
    /\ pc = "shell"
    /\ script' = "create_sampled_data"
    /\ data_dir0' = data_dir
    /\ \E r1 \in CreateSampledFile(data_dir, F_annual) :
          IF r1.raised THEN data_dir' = r1.dir
          ELSE \E r2 \in CreateSampledFile(r1.dir, F_education) : data_dir' = r2.dir
    /\ BackupFrame

\* a run of regenerate_json_data.py, as far as these two files go
RegenerateJsonData ==
    /\ pc = "shell"
    /\ script' = "regenerate_json_data"
    /\ data_dir0' = data_dir
    /\ \E d1 \in RegenerateFile(data_dir, F_annual) :
          data_dir' \in RegenerateFile(d1, F_education)
    /\ BackupFrame

(***************************************************************************)
(* generate_advanced_analytics.py: the dict of charts and its write.       *)
(***************************************************************************)
\* the entries of analytics_data in the order of the dict literal: the key
\* and whether its builder returns None when its source column is missing
ChartEntries ==
    << [key |-> "indiaMap", optional |-> FALSE],
       [key |-> "genderDistributionByState", optional |-> FALSE],
       [key |-> "facilityDistribution", optional |-> FALSE],
       [key |-> "enrollmentTrends", optional |-> FALSE],
       [key |-> "stateWiseComparison", optional |-> FALSE],
       [key |-> "ageDistribution", optional |-> TRUE],
       [key |-> "dropoutReasons", optional |-> TRUE],
       [key |-> "infrastructureAvailability", optional |-> FALSE],
       [key |-> "teacherDemographics", optional |-> FALSE],
       [key |-> "socialDiversity", optional |-> FALSE],
       [key |-> "yearOverYear", optional |-> FALSE],
       [key |-> "projectDistribution", optional |-> FALSE],
       [key |-> "facilityTypeBreakdown", optional |-> FALSE],
       [key |-> "studentTeacherRatio", optional |-> TRUE],
       [key |-> "nutritionRadar", optional |-> TRUE],
       [key |-> "regionalComparison", optional |-> TRUE],
       [key |-> "specialNeeds", optional |-> TRUE],
       [key |-> "locationDistribution", optional |-> TRUE],
       [key |-> "districtHeatmap", optional |-> TRUE],
       [key |-> "schoolCategory", optional |-> TRUE] >>

AnalyticsKeys ==
    {ChartEntries[i].key : i \in 1..Len(ChartEntries)}

OptionalCharts ==
    {ChartEntries[i].key : i \in {j \in 1..Len(ChartEntries) : ChartEntries[j].optional}}

\* the base64 alphabet, and the value of one of its characters
B64Alphabet ==
    UpperChars \o LowerChars \o DigitChars \o <<"+", "/">>

B64Value(c) ==
    IF c = "=" THEN 0
    ELSE (CHOOSE i \in 1..Len(B64Alphabet) : B64Alphabet[i] = c) - 1

\* the bytes of one group of four characters
B64Group(g) ==
    LET n   == B64Value(g[1]) * 262144 + B64Value(g[2]) * 4096
                   + B64Value(g[3]) * 64 + B64Value(g[4])
        all == <<n \div 65536, (n \div 256) % 256, n % 256>>
    IN  IF g[3] = "=" THEN SubSeq(all, 1, 1)
        ELSE IF g[4] = "=" THEN SubSeq(all, 1, 2)
        ELSE all

\* base64.b64decode accepts the text: whole groups, padding only at the end
B64Valid(s) ==
    /\ Len(s) % 4 = 0
    /\ \A i \in 1..Len(s) :
          \/ \E a \in 1..Len(B64Alphabet) : B64Alphabet[a] = s[i]
          \/ /\ s[i] = "="
             /\ i >= Len(s) - 1
             /\ i > 2
             /\ (i = Len(s) - 1 => s[Len(s)] = "=")

RECURSIVE b64decode(_)
\* base64.b64decode(s) of a text it accepts
b64decode(s) ==
    IF s = << >> THEN << >>
    ELSE B64Group(SubSeq(s, 1, 4)) \o b64decode(SubSeq(s, 5, Len(s)))

\* a little-endian two's-complement integer of the bytes b
RECURSIVE Unsigned(_)
Unsigned(b) ==
    IF b = << >> THEN 0 ELSE b[1] + 256 * Unsigned(Tail(b))

RECURSIVE Pow256(_)
Pow256(n) ==
    IF n = 0 THEN 1 ELSE 256 * Pow256(n - 1)

Signed(b) ==
    LET top == b[Len(b)]
    IN  Unsigned(SubSeq(b, 1, Len(b) - 1))
            + Pow256(Len(b) - 1) * (IF top >= 128 THEN top - 256 ELSE top)

\* the size in bytes of one value of a dtype the function knows, 0 otherwise
ItemSize(dtype) ==
    CASE dtype \in {"i1", "u1"} -> 1
      [] dtype = "i2" -> 2
      [] dtype = "i4" -> 4
      [] dtype = "f8" -> 8
      [] OTHER -> 0

\* struct.unpack(f'{num_values}<code>', decoded) with num_values computed by
\* floor division: it raises when the bytes are not a whole number of values;
\* a float64 is kept as the eight bytes that encode it
struct_unpack(dtype, decoded) ==
    LET size  == ItemSize(dtype)
        n     == Len(decoded) \div size
        item(i) == SubSeq(decoded, (i - 1) * size + 1, i * size)
    IN  IF Len(decoded) # n * size THEN [raises |-> TRUE, values |-> << >>]
        ELSE [raises |-> FALSE,
              values |-> [i \in 1..n |->
                             IF dtype = "u1" THEN Unsigned(item(i))
                             ELSE IF dtype = "f8" THEN [f8 |-> item(i)]
                             ELSE Signed(item(i))]]

\* the values of a trace axis
PyList(values) ==
    [type |-> "list", values |-> values]
PyDict(items) ==
    [type |-> "dict", items |-> items]

\* the body of the loop over the axes of a trace, for an axis the trace has
decompress_axis(value) ==
    IF value.type = "list" THEN value
    ELSE IF value.type = "dict"
            /\ "bdata" \in DOMAIN value.items /\ "dtype" \in DOMAIN value.items
    THEN LET bdata == value.items["bdata"]
             dtype == value.items["dtype"]
         IN  IF ~B64Valid(bdata) THEN PyList(<< >>)
             ELSE IF ItemSize(dtype) = 0 THEN PyList(<< >>)
             ELSE IF struct_unpack(dtype, b64decode(bdata)).raises THEN PyList(<< >>)
             ELSE PyList(struct_unpack(dtype, b64decode(bdata)).values)
    ELSE value

decompress_trace(trace) ==
    [k \in DOMAIN trace |->
        IF k \in {"x", "y"} THEN decompress_axis(trace[k]) ELSE trace[k]]

\* decompress_plotly_json: "'data' in plotly_data" raises TypeError on None
decompress_plotly_json(plotly_data) ==
    IF plotly_data = Null THEN [raises |-> TRUE, value |-> Null]
    ELSE IF "data" \in DOMAIN plotly_data
    THEN [raises |-> FALSE,
          value |-> [k \in DOMAIN plotly_data |->
                        IF k = "data"
                        THEN [i \in 1..Len(plotly_data["data"]) |->
                                 decompress_trace(plotly_data["data"][i])]
                        ELSE plotly_data[k]]]
    ELSE [raises |-> FALSE, value |-> plotly_data]

\* the figures json.loads(fig.to_json()) returns in the model: plain lists,
\* typed arrays of each width, a text that is no base64, bytes that are not a
\* whole number of values, an unknown dtype, and a figure without traces
BData(dtype, text) ==
    PyDict(("dtype" :> dtype) @@ ("bdata" :> text))

FigureShapes ==
    << [data |-> << [x |-> PyList(<<1, 2>>),
                     y |-> BData("i1", <<"/", "w", "E", "=">>)] >>,
        layout |-> PyDict(<< >>)],
       [data |-> << [x |-> BData("u1", <<"/", "w", "E", "=">>),
                     y |-> BData("i2", <<"A", "Q", "L", "/">> \o <<"/", "w", "=", "=">>)],
                    [y |-> BData("i4", <<"A", "Q", "I", "D">> \o <<"B", "A", "=", "=">>)] >>,
        layout |-> PyDict(<< >>)],
       [layout |-> PyDict(<< >>)],
       [data |-> << [x |-> BData("i2", <<"A", "Q", "I", "D">>),
                     y |-> BData("f4", <<"A", "Q", "I", "D">>)],
                    [x |-> PyDict(("dtype" :> "i1")),
                     y |-> BData("i1", <<"A", "Q", "I">>)] >>,
        layout |-> PyDict(<< >>)],
       [data |-> << [x |-> BData("f8", << >>),
                     y |-> PyList(<< >>)] >>,
        layout |-> PyDict(<< >>)] >>

\* what the builder of entry i returns
BuilderResult(i) ==
    IF ChartEntries[i].key \in missing_columns THEN Null
    ELSE FigureShapes[((i - 1) % Len(FigureShapes)) + 1]

\* one entry of the dict literal at lines 1531-1552: the builder is called and
\* its result passed to decompress_plotly_json
GenerateChart ==
    /\ script = "generate_advanced_analytics"
    /\ pc = "charts"
    /\ chart <= Len(ChartEntries)
    /\ LET d == decompress_plotly_json(BuilderResult(chart))
       IN  IF d.raises
           THEN /\ pc' = "raised"
                /\ UNCHANGED <<analytics_data, chart>>
           ELSE /\ analytics_data' = analytics_data @@ (ChartEntries[chart].key :> d.value)
                /\ chart' = chart + 1
                /\ pc' = pc
    /\ UNCHANGED <<script, tableVars, riskVars, levelVars, flattenVars, fileVars,
                   fixVars, bandVars, backupVars, missing_columns>>

\* json.dump(analytics_data, f) to advanced_analytics.json (lines 1555-1557)
SaveAnalytics ==
    /\ script = "generate_advanced_analytics"
    /\ pc = "charts"
    /\ chart > Len(ChartEntries)
    /\ files' = [files EXCEPT ![F_advanced_analytics] = JsonFile(analytics_data)]
    /\ written' = written \cup {F_advanced_analytics}
    /\ pc' = "finished"
    /\ UNCHANGED <<script, tableVars, riskVars, levelVars, flattenVars, files0,
                   fixVars, moreVars>>

\* update_percentage_charts.py is started after generate_advanced_analytics.py
\* has finished
StartUpdatePercentageCharts ==
    /\ script = "generate_advanced_analytics"
    /\ pc = "finished"
    /\ script' = "update_percentage_charts"
    /\ pc' = "start"
    /\ files0' = files
    /\ written' = {}
    /\ UNCHANGED <<tableVars, riskVars, levelVars, flattenVars, files, fixVars,
                   moreVars>>

(***************************************************************************)
(* Specifications.                                                         *)
(***************************************************************************)
AggIdle ==
    /\ script = "none"
    /\ pc = "done"
    /\ processed = << >>
    /\ byRegion = EmptyTable
    /\ byDistrict = EmptyTable
    /\ regionYearData = EmptyNested
    /\ districtYearData = EmptyNested
    /\ regionDistrictMap = EmptyMap
    /\ byYear = EmptyTable
    /\ byAttendanceRate = ZeroAttendance
    /\ byPerformance = EmptyCounts

RiskIdle ==
    /\ row = NoRow
    /\ rpc = "idle"
    /\ marriage = NoResult
    /\ labour = NoResult
    /\ trafficking = NoResult
    /\ levels = NoLevels

LevelIdle ==
    /\ level_score = 0
    /\ level_out = "idle"

FlattenIdle ==
    /\ raw_data = NoDocument
    /\ all_records = << >>

FilesIdle ==
    /\ files = NoFiles
    /\ files0 = NoFiles
    /\ written = {}

FixIdle ==
    /\ listing = << >>
    /\ content = << >>
    /\ content0 = << >>
    /\ shape0 = << >>
    /\ position = 1
    /\ report = << >>

BandIdle ==
    /\ labor_df = << >>
    /\ girls_10_18 = << >>
    /\ children_6_18 = << >>
    /\ protectionVulnerability = << >>

BackupIdle ==
    /\ data_dir = << >>
    /\ data_dir0 = << >>

ChartIdle ==
    /\ missing_columns = {}
    /\ analytics_data = << >>
    /\ chart = 1

MoreIdle ==
    /\ BandIdle
    /\ BackupIdle
    /\ ChartIdle

ExtIdle ==
    /\ FlattenIdle
    /\ FilesIdle
    /\ FixIdle
    /\ MoreIdle

\* an aggregation script at the top of its loop, the tables empty
Init ==
    /\ script \in Scripts
    /\ pc = "loop"
    /\ processed = << >>
    /\ byRegion = EmptyTable
    /\ byDistrict = EmptyTable
    /\ regionYearData = EmptyNested
    /\ districtYearData = EmptyNested
    /\ regionDistrictMap = EmptyMap
    /\ byYear = EmptyTable
    /\ byAttendanceRate = ZeroAttendance
    /\ byPerformance = EmptyCounts
    /\ RiskIdle
    /\ LevelIdle
    /\ ExtIdle

Next ==
    \/ \E record \in Records : AddRegionDistrictDataStep(record)
    \/ \E record \in Records : AddRegionDistrictEducationStep(record)
    \/ \E record \in Records : GenerateChildAnnualSummaryStep(record)
    \/ \E record \in Records : GenerateChildEducationSummaryStep(record)
    \/ EndOfRecords

Spec ==
    Init /\ [][Next]_vars

\* the scorers applied to one row
InitRisk ==
    /\ row \in Rows
    /\ rpc = "start"
    /\ marriage = NoResult
    /\ labour = NoResult
    /\ trafficking = NoResult
    /\ levels = NoLevels
    /\ AggIdle
    /\ LevelIdle
    /\ ExtIdle

NextRisk ==
    \/ MarriageRiskAnalysis
    \/ LabourRiskAnalysis
    \/ TraffickingRiskAnalysis

SpecRisk ==
    InitRisk /\ [][NextRisk]_vars

\* get_risk_level applied to one score
InitLevel ==
    /\ level_score \in 0..MaxScore
    /\ level_out = "none"
    /\ AggIdle
    /\ RiskIdle
    /\ ExtIdle

NextLevel ==
    GetRiskLevel

SpecLevel ==
    InitLevel /\ [][NextLevel]_vars

\* a script that has loaded its source document and is about to flatten it
InitFlatten ==
    /\ script \in FlattenScripts
    /\ pc = "flatten"
    /\ raw_data \in Documents
    /\ all_records = << >>
    /\ processed = << >>
    /\ byRegion = EmptyTable
    /\ byDistrict = EmptyTable
    /\ regionYearData = EmptyNested
    /\ districtYearData = EmptyNested
    /\ regionDistrictMap = EmptyMap
    /\ byYear = EmptyTable
    /\ byAttendanceRate = ZeroAttendance
    /\ byPerformance = EmptyCounts
    /\ RiskIdle
    /\ LevelIdle
    /\ FilesIdle
    /\ FixIdle
    /\ MoreIdle

NextFlatten ==
    \/ AddRegionDistrictDataFlatten
    \/ AddRegionDistrictEducationFlatten
    \/ FlattenData

SpecFlatten ==
    InitFlatten /\ [][NextFlatten]_vars

\* the data directory as a run finds it: the files the script touches vary,
\* the others are as the earlier steps of the pipeline leave them
DefaultFiles ==
    [f \in FileNames |->
        IF f \in {F_annual, F_education} THEN JsonFile(DocSummary)
        ELSE IF f = F_vulnerability THEN JsonFile(DocVulnerability)
        ELSE IF f = F_advanced_analytics THEN JsonFile(DocCharts)
        ELSE IF f \in {F_anganwadi, F_school} THEN Missing
        ELSE Readable]

StartFiles(s) ==
    IF s \in {"add_region_district_data", "add_region_district_education"}
    THEN {[DefaultFiles EXCEPT ![OriginalOf(s)] = o, ![ExistingOf(s)] = e] :
            o \in SourceStates, e \in ExistingSummaries}
    ELSE IF s = "generate_summary_data"
    THEN {[DefaultFiles EXCEPT ![F_annual_original] = a, ![F_education_original] = b,
                               ![F_annual] = e, ![F_education] = e] :
            a \in SourceStates, b \in SourceStates,
            e \in {Missing, JsonFile(DocSummary)}}
    ELSE IF s = "analyze_protection_risk"
    THEN {[f \in FileNames |->
             IF f = F_vulnerability THEN e
             ELSE IF \E i \in 1..Len(ProtectionSources) :
                        ProtectionSources[i] = f /\ i \in bad
             THEN Unparsable ELSE DefaultFiles[f]] :
            bad \in SUBSET (1..Len(ProtectionSources)),
            e \in {Missing, Unparsable, JsonFile(DocVulnerability)}}
    ELSE IF s = "update_percentage_charts"
    THEN {[DefaultFiles EXCEPT ![F_advanced_analytics] = e] :
            e \in {Missing, Unparsable, JsonFile(DocCharts), JsonFile(DocEmpty)}}
    ELSE {[f \in FileNames |->
             IF f \in bad THEN Unparsable ELSE DefaultFiles[f]] :
            bad \in SUBSET RegenerateSources}

\* a script of the pipeline started on a data directory
InitFiles ==
    /\ script \in FileScripts
    /\ pc = IF script = "regenerate_json_data" THEN SectionPc[1] ELSE "start"
    /\ files \in StartFiles(script)
    /\ files0 = files
    /\ written = {}
    /\ processed = << >>
    /\ byRegion = EmptyTable
    /\ byDistrict = EmptyTable
    /\ regionYearData = EmptyNested
    /\ districtYearData = EmptyNested
    /\ regionDistrictMap = EmptyMap
    /\ byYear = EmptyTable
    /\ byAttendanceRate = ZeroAttendance
    /\ byPerformance = EmptyCounts
    /\ RiskIdle
    /\ LevelIdle
    /\ FlattenIdle
    /\ FixIdle
    /\ MoreIdle

NextFiles ==
    \/ LoadOriginal
    \/ \E record \in PersistRecords : AddRegionDistrictDataStep(record)
    \/ \E record \in PersistRecords : AddRegionDistrictEducationStep(record)
    \/ \E record \in PersistRecords : GenerateChildAnnualSummaryStep(record)
    \/ \E record \in PersistRecords : GenerateChildEducationSummaryStep(record)
    \/ EndOfRecords
    \/ PersistRegionDistrict
    \/ MainLoadAnnual
    \/ MainSaveAnnual
    \/ MainLoadEducation
    \/ MainSaveEducation
    \/ ProtectionLoadData
    \/ UpdateJsonWithProtectionData
    \/ UpdatePercentageCharts
    \/ RegenerateAnganwadi
    \/ RegenerateChildAnnual
    \/ RegenerateChildEducation
    \/ RegenerateSchool

SpecFiles ==
    InitFiles /\ [][NextFiles]_vars

\* fix_json_nan.py started on a data directory
InitFixJson ==
    /\ script = "fix_json_nan"
    /\ pc = "batch"
    /\ listing \in Listings
    /\ shape0 \in [{listing[i] : i \in 1..Len(listing)} -> TextShapes]
    /\ \A f \in DOMAIN shape0 :
          ~Selected(f) => shape0[f] = [shape |-> "single", v |-> S_NaN, w |-> S_One]
    /\ content0 = [f \in DOMAIN shape0 |->
                      Render(shape0[f].shape, shape0[f].v, shape0[f].w)]
    /\ content = content0
    /\ position = 1
    /\ report = << >>
    /\ processed = << >>
    /\ byRegion = EmptyTable
    /\ byDistrict = EmptyTable
    /\ regionYearData = EmptyNested
    /\ districtYearData = EmptyNested
    /\ regionDistrictMap = EmptyMap
    /\ byYear = EmptyTable
    /\ byAttendanceRate = ZeroAttendance
    /\ byPerformance = EmptyCounts
    /\ RiskIdle
    /\ LevelIdle
    /\ FlattenIdle
    /\ FilesIdle
    /\ MoreIdle

NextFixJson ==
    \/ FixJsonStep
    \/ FixJsonEnd

SpecFixJson ==
    InitFixJson /\ [][NextFixJson]_vars

\* generate_child_education_summary at the top of its loop
InitEducation ==
    /\ script = "generate_child_education_summary"
    /\ pc = "loop"
    /\ processed = << >>
    /\ byRegion = EmptyTable
    /\ byDistrict = EmptyTable
    /\ regionYearData = EmptyNested
    /\ districtYearData = EmptyNested
    /\ regionDistrictMap = EmptyMap
    /\ byYear = EmptyTable
    /\ byAttendanceRate = ZeroAttendance
    /\ byPerformance = EmptyCounts
    /\ RiskIdle
    /\ LevelIdle
    /\ ExtIdle

NextEducation ==
    \/ \E record \in EducationRecords : GenerateChildEducationSummaryStep(record)
    \/ EndOfRecords

SpecEducation ==
    InitEducation /\ [][NextEducation]_vars

\* the records the relation map is checked on: both regions, both districts,
\* and records one side of which resolves to 'Unknown'
MapRecords ==
    {RecNorthMale, RecNullRegionName, RecSouthBoy, RecBlankRegion,
     RecPeriodicity, ("Region" :> Str(S_North)) @@ ("Gender" :> Str(S_f))}

\* a script that keeps the relation map, at the top of its loop
InitMap ==
    /\ Init
    /\ script # "generate_child_education_summary"

NextMap ==
    \/ \E record \in MapRecords : AddRegionDistrictDataStep(record)
    \/ \E record \in MapRecords : AddRegionDistrictEducationStep(record)
    \/ \E record \in MapRecords : GenerateChildAnnualSummaryStep(record)
    \/ EndOfRecords

SpecMap ==
    InitMap /\ [][NextMap]_vars

\* the frames of length up to n over the rows of the model
FramesUpTo(n) ==
    UNION {[1..k -> FrameRows] : k \in 0..n}

\* analyze_protection_risk.py with labor_df loaded
InitBands ==
    /\ script = "analyze_protection_risk"
    /\ pc = "analyze"
    /\ labor_df \in FramesUpTo(MaxRows)
    /\ girls_10_18 = << >>
    /\ children_6_18 = << >>
    /\ protectionVulnerability = << >>
    /\ processed = << >>
    /\ byRegion = EmptyTable
    /\ byDistrict = EmptyTable
    /\ regionYearData = EmptyNested
    /\ districtYearData = EmptyNested
    /\ regionDistrictMap = EmptyMap
    /\ byYear = EmptyTable
    /\ byAttendanceRate = ZeroAttendance
    /\ byPerformance = EmptyCounts
    /\ RiskIdle
    /\ LevelIdle
    /\ FlattenIdle
    /\ FilesIdle
    /\ FixIdle
    /\ BackupIdle
    /\ ChartIdle

NextBands ==
    \/ AnalyzeProtectionRisks
    \/ ProtectionVulnerabilityUpdate

SpecBands ==
    InitBands /\ [][NextBands]_vars

\* public/data before any of the four scripts ran: the raw child_annual
\* dataset, the raw child_education dataset or none, no backup of either
InitBackup ==
    /\ script = "none"
    /\ pc = "shell"
    /\ \E e \in {Missing, JsonFile(FullDataset(F_education))} :
          data_dir = [f \in DataDirFiles |->
                         IF f = F_annual THEN JsonFile(FullDataset(F_annual))
                         ELSE IF f = F_education THEN e
                         ELSE Missing]
    /\ data_dir0 = data_dir
    /\ processed = << >>
    /\ byRegion = EmptyTable
    /\ byDistrict = EmptyTable
    /\ regionYearData = EmptyNested
    /\ districtYearData = EmptyNested
    /\ regionDistrictMap = EmptyMap
    /\ byYear = EmptyTable
    /\ byAttendanceRate = ZeroAttendance
    /\ byPerformance = EmptyCounts
    /\ RiskIdle
    /\ LevelIdle
    /\ FlattenIdle
    /\ FilesIdle
    /\ FixIdle
    /\ BandIdle
    /\ ChartIdle

NextBackup ==
    \/ CreateSampleData
    \/ QuickFixData
    \/ CreateSampledData
    \/ RegenerateJsonData

SpecBackup ==
    InitBackup /\ [][NextBackup]_vars

\* generate_advanced_analytics.py with its frames loaded, about to evaluate
\* the dict of charts
InitCharts ==
    /\ script = "generate_advanced_analytics"
    /\ pc = "charts"
    /\ missing_columns \in SUBSET OptionalCharts
    /\ analytics_data = << >>
    /\ chart = 1
    /\ \E e \in {Missing, JsonFile(DocCharts)} :
          files = [DefaultFiles EXCEPT ![F_advanced_analytics] = e]
    /\ files0 = files
    /\ written = {}
    /\ processed = << >>
    /\ byRegion = EmptyTable
    /\ byDistrict = EmptyTable
    /\ regionYearData = EmptyNested
    /\ districtYearData = EmptyNested
    /\ regionDistrictMap = EmptyMap
    /\ byYear = EmptyTable
    /\ byAttendanceRate = ZeroAttendance
    /\ byPerformance = EmptyCounts
    /\ RiskIdle
    /\ LevelIdle
    /\ FlattenIdle
    /\ FixIdle
    /\ BandIdle
    /\ BackupIdle

NextCharts ==
    \/ GenerateChart
    \/ SaveAnalytics
    \/ StartUpdatePercentageCharts
    \/ UpdatePercentageCharts

SpecCharts ==
    InitCharts /\ [][NextCharts]_vars

(***************************************************************************)
(* Properties.                                                             *)
(***************************************************************************)
\* the scripts that keep the region and district tables
RegionScripts ==
    {"add_region_district_data", "add_region_district_education",
     "generate_child_annual_summary"}

MaleWords ==
    {S_male, S_m, S_boy}
FemaleWords ==
    {S_female, S_f, S_girl}

RECURSIVE SumOver(_, _, _)
\* sum of table[k][field] over the keys ks
SumOver(table, ks, field) ==
    IF ks = {} THEN 0
    ELSE LET k == CHOOSE x \in ks : TRUE
         IN  table[k][field] + SumOver(table, ks \ {k}, field)

SumField(table, field) ==
    SumOver(table, DOMAIN table, field)

\* the positions of processed whose record has no region (district) field at all
NoRegionField ==
    {i \in DOMAIN processed :
        DOMAIN processed[i] \cap {"Region Name", "Region"} = {}}
NoDistrictField ==
    {i \in DOMAIN processed :
        DOMAIN processed[i] \cap {"District Name", "District"} = {}}

\* C1: in every pass that keeps them, the counts of byRegion sum to the number of
\* records processed, and so do the counts of byDistrict; the records without a
\* region (district) field are counted under 'Unknown'.
C1_CountsSumToRecords ==
    script \in RegionScripts =>
        /\ SumField(byRegion, "count") = Len(processed)
        /\ SumField(byDistrict, "count") = Len(processed)
        /\ NoRegionField # {} =>
              /\ S_Unknown \in DOMAIN byRegion
              /\ byRegion[S_Unknown].count >= Cardinality(NoRegionField)
        /\ NoDistrictField # {} =>
              /\ S_Unknown \in DOMAIN byDistrict
              /\ byDistrict[S_Unknown].count >= Cardinality(NoDistrictField)

\* a finished pass over three records with several regions, one of them 'Unknown'
C1_Witness ==
    /\ script = "generate_child_annual_summary"
    /\ pc = "done"
    /\ Len(processed) = MaxRecords
    /\ Cardinality(DOMAIN byRegion) >= 2
    /\ NoRegionField # {}
    /\ S_Unknown \in DOMAIN byDistrict

\* the gender the running script extracted is one of the six words
Unambiguous(record) ==
    GenderOf(script, record) \in MaleWords \cup FemaleWords

\* a counter against the positions of processed counted in its group
C2_CounterOK(counter, group) ==
    /\ counter.boys + counter.girls <= counter.count
    /\ (counter.boys + counter.girls = counter.count)
          <=> (\A i \in group : Unambiguous(processed[i]))
    /\ counter.boys + counter.girls
          = Cardinality({i \in group : Unambiguous(processed[i])})

\* C2: every counter of the four tables has boys + girls <= count, with equality
\* exactly when every record of its group has an unambiguous gender; boys + girls
\* is the number of such records, so no record is counted as both.
C2_BoysPlusGirlsAtMostCount ==
    script \in RegionScripts =>
        /\ \A r \in DOMAIN byRegion :
              C2_CounterOK(byRegion[r],
                  {i \in DOMAIN processed : RegionOf(script, processed[i]) = r})
        /\ \A d \in DOMAIN byDistrict :
              C2_CounterOK(byDistrict[d],
                  {i \in DOMAIN processed : DistrictOf(script, processed[i]) = d})
        /\ \A r \in DOMAIN regionYearData : \A y \in DOMAIN regionYearData[r] :
              C2_CounterOK(regionYearData[r][y],
                  {i \in DOMAIN processed :
                      /\ RegionOf(script, processed[i]) = r
                      /\ YearOf(script, processed[i]) = y})
        /\ \A d \in DOMAIN districtYearData : \A y \in DOMAIN districtYearData[d] :
              C2_CounterOK(districtYearData[d][y],
                  {i \in DOMAIN processed :
                      /\ DistrictOf(script, processed[i]) = d
                      /\ YearOf(script, processed[i]) = y})

\* a region with a boy, a girl and a record of neither, beside a region where
\* boys + girls = count
C2_Witness ==
    /\ script = "add_region_district_data"
    /\ \E r \in DOMAIN byRegion :
          /\ byRegion[r].boys >= 1
          /\ byRegion[r].girls >= 1
          /\ byRegion[r].boys + byRegion[r].girls < byRegion[r].count
    /\ \E d \in DOMAIN byDistrict :
          /\ byDistrict[d].count >= 1
          /\ byDistrict[d].boys + byDistrict[d].girls = byDistrict[d].count

\* C3: each of the three scorers returns an integer score in [0, 100].
C3_ScoreInRange ==
    /\ marriage.score \in 0..100
    /\ labour.score \in 0..100
    /\ trafficking.score \in 0..100

\* a row whose trafficking contributions sum to 110 and whose score is 100
C3_Witness ==
    /\ rpc = "done"
    /\ trafficking.score = 100
    /\ Len(trafficking.factors) = 6
    /\ marriage.score > 0
    /\ labour.score > 0

\* C4: get_risk_level depends on the score alone: High from 50, Medium from 25 to
\* 49, Low from 1 to 24, Minimal at 0.
C4_LevelThresholds ==
    level_out # "none" /\ level_out # "idle" =>
        /\ level_score >= 50 => level_out = "High"
        /\ level_score >= 25 /\ level_score < 50 => level_out = "Medium"
        /\ level_score > 0 /\ level_score < 25 => level_out = "Low"
        /\ level_score = 0 => level_out = "Minimal"
        /\ level_score \in {50, 100} => level_out = "High"
        /\ level_score \in {25, 49} => level_out = "Medium"
        /\ level_score \in {1, 24} => level_out = "Low"

\* get_risk_level called on the boundary 25
C4_Witness ==
    /\ level_score = 25
    /\ level_out = "Medium"

\* the class the six words give a gender value when compared without regard to case
C5_Class(value) ==
    IF value.t # "str" THEN "other"
    ELSE IF Lower(value.s) \in MaleWords THEN "male"
    ELSE IF Lower(value.s) \in FemaleWords THEN "female"
    ELSE "other"

\* the gender field of a record that has at most one of the two gender columns
C5_GenderValue(record) ==
    IF "Gender" \in DOMAIN record THEN record["Gender"]
    ELSE IF "Gender_x" \in DOMAIN record THEN record["Gender_x"]
    ELSE Str(S_Empty)

\* C5: (North, 'Male'), (North, 'female'), (South, 'boy') give byRegion =
\* {North: {2, 1, 1}, South: {1, 1, 0}}; a single record is counted as a boy or a
\* girl exactly when its gender is one of the words in any case, and any other
\* value (empty, missing, another word) increments count only.
C5_GenderCaseInsensitive ==
    script \in RegionScripts =>
        /\ processed = <<RecNorthMale, RecNorthFemale, RecSouthBoy>> =>
              byRegion = (S_North :> [count |-> 2, boys |-> 1, girls |-> 1])
                      @@ (S_South :> [count |-> 1, boys |-> 1, girls |-> 0])
        /\ Len(processed) = 1 /\ ~({"Gender", "Gender_x"} \subseteq DOMAIN processed[1]) =>
              LET class == C5_Class(C5_GenderValue(processed[1]))
                  c     == byRegion[RegionOf(script, processed[1])]
              IN  /\ c.count = 1
                  /\ c.boys = (IF class = "male" THEN 1 ELSE 0)
                  /\ c.girls = (IF class = "female" THEN 1 ELSE 0)

\* the example of the three records, aggregated
C5_Witness ==
    /\ script = "add_region_district_data"
    /\ processed = <<RecNorthMale, RecNorthFemale, RecSouthBoy>>
    /\ byRegion[S_North].boys = 1
    /\ byRegion[S_North].girls = 1

\* the value is absent, NaN or a plain "no": the field triggers no rule
C6_Unset(r, field) ==
    field \in DOMAIN r => r[field] \in {Str(S_No), NaN, Str(S_APL)}

\* enrollment 'Drop Out', single parent 'Yes', no other field the marriage scorer
\* reads set
C6_Example(r) ==
    /\ F_enrollment \in DOMAIN r /\ r[F_enrollment] = Str(S_DropOut)
    /\ F_single_parent \in DOMAIN r /\ r[F_single_parent] = Str(S_Yes)
    /\ \A f \in {F_grandparent, F_child_headed, F_earner_ill, F_migrated,
                 F_hh_migrates, F_missing, F_ration} : C6_Unset(r, f)

\* C6: such a record gets child-marriage score 35 with the factors 'Out of
\* school', 'Orphan/Single parent' in that order, and the level 'Medium'.
C6_DropOutSingleParent ==
    rpc \notin {"idle", "start"} /\ C6_Example(row) =>
        /\ marriage.score = 35
        /\ marriage.factors = <<"Out of school", "Orphan/Single parent">>
        /\ levels["marriage"] = "Medium"

\* the example row, scored
C6_Witness ==
    /\ rpc = "done"
    /\ C6_Example(row)
    /\ marriage.score = 35

\* the value of the first alias, in order, that the record has with a non-null
\* value; Null when there is none
FirstNonNull(record, aliases) ==
    LET present == {i \in DOMAIN aliases :
                        aliases[i] \in DOMAIN record /\ record[aliases[i]] # Null}
    IN  IF present = {} THEN Null
        ELSE record[aliases[CHOOSE i \in present : \A j \in present : i <= j]]

\* a string value that is neither blank nor padded
PlainString(v) ==
    v.t = "str" /\ v.s # << >> /\ Strip(v.s) = v.s

\* C7: the region, the district and the gender of a record are taken from the
\* first alias present with a non-null value; a record with 'Region Name' null
\* and 'Region' = 'North' is counted under 'North', not under 'Unknown'.
C7_FirstNonNullAlias ==
    script \in RegionScripts /\ Len(processed) = 1 =>
        LET record == processed[1]
            rv == FirstNonNull(record, <<"Region Name", "Region">>)
            dv == FirstNonNull(record, <<"District Name", "District">>)
            gv == FirstNonNull(record, <<"Gender", "Gender_x">>)
        IN  /\ PlainString(rv) => DOMAIN byRegion = {rv.s}
            /\ PlainString(dv) => DOMAIN byDistrict = {dv.s}
            /\ PlainString(gv) =>
                  \A r \in DOMAIN byRegion :
                      /\ byRegion[r].boys = (IF Lower(gv.s) \in MaleWords THEN 1 ELSE 0)
                      /\ byRegion[r].girls = (IF Lower(gv.s) \in FemaleWords THEN 1 ELSE 0)
            /\ record = RecNullRegionName =>
                  S_North \in DOMAIN byRegion /\ S_Unknown \notin DOMAIN byRegion

\* the region (district) value of a record is absent, null, empty or blank
BlankValue(record, aliases) ==
    LET v == FirstNonNull(record, aliases)
    IN  v = Null \/ (v.t = "str" /\ Strip(v.s) = << >>)

\* C8: in every aggregation pass a region or district that is absent, null,
\* empty or whitespace-only is grouped under 'Unknown', and no table has an empty
\* or whitespace-only region or district key.
C8_BlankGroupedUnderUnknown ==
    script \in RegionScripts =>
        /\ \A k \in DOMAIN byRegion \cup DOMAIN byDistrict
                    \cup DOMAIN regionYearData \cup DOMAIN districtYearData :
              Strip(k) # << >>
        /\ \A i \in DOMAIN processed :
              /\ BlankValue(processed[i], <<"Region Name", "Region">>)
                    => S_Unknown \in DOMAIN byRegion
              /\ BlankValue(processed[i], <<"District Name", "District">>)
                    => S_Unknown \in DOMAIN byDistrict

\* C9: the gender is lowercased and trimmed before it is classified: a single
\* record whose gender is one of the six words up to case and surrounding
\* whitespace (' Male ') is counted as a boy or as a girl.
C9_GenderTrimmed ==
    script \in RegionScripts /\ Len(processed) = 1
            /\ "Gender" \in DOMAIN processed[1] /\ processed[1]["Gender"].t = "str" =>
        LET g == Strip(Lower(processed[1]["Gender"].s))
        IN  \A r \in DOMAIN byRegion :
                /\ g \in MaleWords => byRegion[r].boys = 1
                /\ g \in FemaleWords => byRegion[r].girls = 1

\* the year keys the running pass has created
YearKeys ==
    IF script \in {"add_region_district_data", "add_region_district_education"}
    THEN UNION {DOMAIN regionYearData[r] : r \in DOMAIN regionYearData}
    ELSE DOMAIN byYear

\* the year key the record is to be grouped under
C10_ExpectedYear(record) ==
    IF "Year" \in DOMAIN record THEN PyStr(record["Year"])
    ELSE IF "Periodicity" \in DOMAIN record THEN PyStr(record["Periodicity"])
    ELSE S_Unknown

\* C10: in every pass that groups by year the year key of a record is the string
\* form of 'Year', of 'Periodicity' when 'Year' is absent, and 'Unknown' when both
\* are; Year = 2023 and Year = '2023' fall into the same group.
C10_YearKey ==
    /\ Len(processed) = 1
            /\ ~("Year" \in DOMAIN processed[1] /\ processed[1]["Year"] = Null) =>
          YearKeys = {C10_ExpectedYear(processed[1])}
    /\ processed = <<RecNorthMale, RecNorthFemale>> => YearKeys = {S_2023}

(***************************************************************************)
(* C11: flattening.                                                        *)
(***************************************************************************)
\* the positions of key where four digits in a row start
YearStarts(key) ==
    {i \in 1..(Len(key) - 3) :
        \A j \in i..(i + 3) : \E d \in 1..10 : DigitChars[d] = key[j]}

\* the 4-digit year embedded in a source key, 0 if there is none
EmbeddedYear(key) ==
    IF YearStarts(key) = {} THEN 0
    ELSE LET i == CHOOSE x \in YearStarts(key) : \A y \in YearStarts(key) : x <= y
         IN  DigitValue(SubSeq(key, i, i + 3))

RECURSIVE FlattenedWithKeyYear(_)
\* every record of every list once, in order; a record without a Year carries
\* the year embedded in its key, a record with a Year is as it was
FlattenedWithKeyYear(items) ==
    IF items = << >> THEN << >>
    ELSE LET key  == Head(items).key
             recs == Head(items).value.items
         IN  [i \in 1..Len(recs) |->
                IF "Year" \in DOMAIN recs[i] \/ EmbeddedYear(key) = 0
                THEN recs[i]
                ELSE recs[i] @@ ("Year" :> Num(EmbeddedYear(key)))]
             \o FlattenedWithKeyYear(Tail(items))

\* C11: when the loaded document is a mapping from source keys to record lists,
\* flattening yields every record of every list exactly once, in order; each
\* record that had no Year carries the 4-digit year embedded in its source key
\* and each record that had a Year is unchanged.
C11_FlattenInjectsKeyYear ==
    [][(/\ pc = "flatten"
        /\ pc' = "loop"
        /\ raw_data.kind = "dict"
        /\ \A i \in 1..Len(raw_data.items) : raw_data.items[i].value.kind = "list")
       => all_records' = FlattenedWithKeyYear(raw_data.items)]_vars

(***************************************************************************)
(* C12, C13: the region -> districts relation.                             *)
(***************************************************************************)
\* the (region, district) pairs the processed records resolved to
ResolvedPairs ==
    {<<RegionOf(script, processed[i]), DistrictOf(script, processed[i])>> :
        i \in 1..Len(processed)}

\* C12: after any sequence of processed records, district d is in
\* regionDistrictMap[r] exactly when some processed record resolved to region r
\* and district d, neither of them 'Unknown'; 'Unknown' is never a key nor a
\* member of regionDistrictMap.
C12_MapIffResolvedPair ==
    script \in RegionScripts =>
        /\ S_Unknown \notin DOMAIN regionDistrictMap
        /\ \A r \in DOMAIN regionDistrictMap :
              /\ S_Unknown \notin regionDistrictMap[r]
              /\ \A d \in regionDistrictMap[r] : <<r, d>> \in ResolvedPairs
        /\ \A p \in ResolvedPairs :
              (p[1] # S_Unknown /\ p[2] # S_Unknown)
                  => /\ p[1] \in DOMAIN regionDistrictMap
                     /\ p[2] \in regionDistrictMap[p[1]]

\* C12 witness: a region with two districts, after a record that resolved to
\* 'Unknown' on one side was processed too
C12_Witness ==
    /\ script \in RegionScripts
    /\ \E r \in DOMAIN regionDistrictMap : Cardinality(regionDistrictMap[r]) = 2
    /\ \E p \in ResolvedPairs : (p[1] = S_Unknown) # (p[2] = S_Unknown)

RECURSIVE MapAfter(_, _)
\* the relation map the loop of script s builds from the records recs
MapAfter(s, recs) ==
    IF recs = << >> THEN EmptyMap
    ELSE LET last == recs[Len(recs)]
         IN  AddDistrict(MapAfter(s, SubSeq(recs, 1, Len(recs) - 1)),
                         RegionOf(s, last), DistrictOf(s, last))

\* a list of strings is strictly increasing: sorted and duplicate-free
StrictlySorted(l) ==
    \A i \in 1..(Len(l) - 1) : StrLess(l[i], l[i + 1])

\* C13: the serialized regionDistrictMap is the same for every permutation of
\* the processed records, and each region maps to a sorted, duplicate-free list
\* of its districts.
C13_SerializedMapOrderFree ==
    script \in RegionScripts =>
        /\ \A p \in Permutations(1..Len(processed)) :
              SerializeMap(MapAfter(script, [i \in 1..Len(processed) |-> processed[p[i]]]))
                  = SerializeMap(regionDistrictMap)
        /\ \A r \in DOMAIN regionDistrictMap :
              LET l == SerializeMap(regionDistrictMap)[r]
              IN  /\ StrictlySorted(l)
                  /\ {l[i] : i \in 1..Len(l)} = regionDistrictMap[r]
                  /\ Len(l) = Cardinality(regionDistrictMap[r])

\* C13 witness: a region whose two districts were met in descending order
C13_Witness ==
    /\ script \in RegionScripts
    /\ Len(processed) >= 2
    /\ RegionOf(script, processed[1]) = RegionOf(script, processed[2])
    /\ StrLess(DistrictOf(script, processed[2]), DistrictOf(script, processed[1]))
    /\ \E r \in DOMAIN regionDistrictMap : Len(SerializeMap(regionDistrictMap)[r]) = 2

(***************************************************************************)
(* C14 - C17: persisting, and runs that fail.                              *)
(***************************************************************************)
RegionDistrictScripts ==
    {"add_region_district_data", "add_region_district_education"}

\* C14: when add_region_district_data or add_region_district_education has
\* written its result, the document on disk has the keys of the document that
\* was there plus the five aggregation keys; each aggregation key holds exactly
\* the freshly computed value (nothing of its old value), every other key holds
\* the value it had, and no other file is changed.
C14_MergeReplacesFiveKeys ==
    (script \in RegionDistrictScripts /\ written # {}) =>
        LET f   == ExistingOf(script)
            old == files0[f].doc
            new == files[f].doc
        IN  /\ written = {f}
            /\ files[f].kind = "json"
            /\ DOMAIN new = DOMAIN old \cup AggregationKeys
            /\ new["byRegion"] = byRegion
            /\ new["byDistrict"] = byDistrict
            /\ new["regionYearData"] = regionYearData
            /\ new["districtYearData"] = districtYearData
            /\ new["regionDistrictMap"] = SerializeMap(regionDistrictMap)
            /\ \A k \in DOMAIN old \ AggregationKeys : new[k] = old[k]
            /\ \A g \in FileNames \ {f} : files[g] = files0[g]

\* C14 witness: a document with byRegion, regionDistrictMap and unrelated keys
\* was merged with tables computed from two regions
C14_Witness ==
    /\ script \in RegionDistrictScripts
    /\ written # {}
    /\ files0[ExistingOf(script)] = JsonFile(DocSummary)
    /\ Cardinality(DOMAIN byRegion) = 2
    /\ S_Old \notin DOMAIN files[ExistingOf(script)].doc["byRegion"]
    /\ files[ExistingOf(script)].doc["byState"] = OldTable

MergingScripts ==
    {"add_region_district_data", "add_region_district_education",
     "analyze_protection_risk", "update_percentage_charts"}

\* C15: when the existing persisted document of a merging script is absent or
\* unparsable, the run never finishes normally and never writes: once the run
\* is past its merge step it has raised, and every file is as it was before
\* the run.
C15_NoExistingDocumentAborts ==
    (script \in MergingScripts /\ files0[ExistingOf(script)].kind # "json") =>
        /\ pc # "finished"
        /\ written = {}
        /\ files = files0

\* C15 witness: a merging script reached its merge step after processing
\* records, found no parsable document, and raised
C15_Witness ==
    /\ script \in RegionDistrictScripts
    /\ files0[ExistingOf(script)].kind \in {"missing", "unparsable"}
    /\ Len(processed) = 2
    /\ pc = "raised"

\* C16: whenever a run has raised, it has written no file and every file is
\* exactly what it was before the run started.
C16_RaiseMeansNothingWritten ==
    pc = "raised" => (written = {} /\ files = files0)

\* the sources a script reads
SourcesOf(s) ==
    IF s \in RegionDistrictScripts THEN {OriginalOf(s)}
    ELSE IF s = "analyze_protection_risk"
    THEN {ProtectionSources[i] : i \in 1..Len(ProtectionSources)}
    ELSE IF s = "regenerate_json_data" THEN RegenerateSources
    ELSE IF s = "update_percentage_charts" THEN {}
    ELSE {F_annual_original, F_education_original}

\* a document regenerate_json_data.py wrote holds both years of its section
BothYears(f) ==
    \A s \in 1..Len(RegenerateSections) :
        RegenerateSections[s].output = f =>
            \A y \in 1..2 : RegenerateSections[s].keys[y] \in DOMAIN files[f].doc

\* C17: when a source spreadsheet or JSON file of a run is malformed, the run
\* does not finish normally (the error propagates and the script aborts) and no
\* document it has written holds only part of the intended data.
C17_MalformedSourceAborts ==
    (\E f \in SourcesOf(script) : files0[f].kind = "unparsable") =>
        /\ pc # "finished"
        /\ script = "regenerate_json_data" => \A f \in written : BothYears(f)

(***************************************************************************)
(* C18, C19: fix_json_nan.                                                 *)
(***************************************************************************)
NonFinite ==
    {S_NaN, S_Infinity, S_NegInfinity}

Nullified(v) ==
    IF v \in NonFinite THEN S_null ELSE v

\* the files of the listing fix_json_file has been called on
Handled ==
    {report[i].file : i \in 1..Len(report)}

\* the value fix_json_file returned for file f
Returned(f) ==
    \E i \in 1..Len(report) : report[i].file = f /\ report[i].ok

\* C18: for every file whose text was valid JSON except for bare NaN, Infinity
\* and -Infinity values, fix_json_file leaves the text with each such value
\* replaced by null, the text parses as JSON, and the function returned True.
C18_NonFiniteBecomeNull ==
    \A f \in Handled :
        shape0[f].shape # "cut" =>
            /\ content[f] = Render(shape0[f].shape, Nullified(shape0[f].v),
                                   Nullified(shape0[f].w))
            /\ json_loads(content[f])
            /\ Returned(f)

\* the selected files among the first n of the listing, in order
SelectedPrefix(n) ==
    SelectSeq(SubSeq(listing, 1, n), Selected)

\* C19: no exception escapes the batch; every selected file the loop has passed
\* has its report line, a file whose repaired text is not valid JSON is reported
\* as failed, and the loop goes on to the end of the listing, so that at the end
\* every selected file was processed.
C19_BatchContinuesAfterFailure ==
    /\ pc # "raised"
    /\ [i \in 1..Len(report) |-> report[i].file] = SelectedPrefix(position - 1)
    /\ \A i \in 1..Len(report) : report[i].ok = json_loads(content[report[i].file])
    /\ pc = "finished" =>
          /\ position = Len(listing) + 1
          /\ \A i \in 1..Len(listing) : Selected(listing[i]) => listing[i] \in Handled

\* C19 witness: the batch finished; a file that failed was followed by a skipped
\* file and by a file that was repaired
C19_Witness ==
    /\ pc = "finished"
    /\ Len(report) = 2
    /\ ~report[1].ok
    /\ report[2].ok
    /\ content[report[2].file] # content0[report[2].file]
    /\ Len(listing) = 3

(***************************************************************************)
(* C20: attendance rates that are not numbers.                             *)
(***************************************************************************)
\* records whose attendance rate is a string that is not a number
MalformedAttendance ==
    {EduMalformed, EduPercent}

\* records without an attendance rate
AbsentAttendance ==
    {EduAbsent}

\* how many processed records are in the set S
CountIn(S) ==
    Cardinality({i \in 1..Len(processed) : processed[i] \in S})

BucketTotal ==
    byAttendanceRate.excellent + byAttendanceRate.good
        + byAttendanceRate.average + byAttendanceRate.poor

RECURSIVE SumCounts(_, _)
SumCounts(table, ks) ==
    IF ks = {} THEN 0
    ELSE LET k == CHOOSE x \in ks : TRUE
         IN  table[k] + SumCounts(table, ks \ {k})

\* byYear and byPerformance have counted every processed record
OtherTablesUpdated ==
    /\ SumField(byYear, "count") = Len(processed)
    /\ SumCounts(byPerformance, DOMAIN byPerformance) = Len(processed)

\* C20 as stated: a record whose attendance rate is non-numeric is handled
\* exactly like a record without an attendance rate, neither increments a
\* byAttendanceRate bucket, and the other tables count every record.
C20_MalformedLikeAbsent ==
    /\ BucketTotal = Len(processed) - CountIn(MalformedAttendance \cup AbsentAttendance)
    /\ OtherTablesUpdated

\* what does hold: a record whose attendance rate is a string float() rejects
\* increments no bucket, every other record increments exactly one (a record
\* without an attendance rate or with a null one increments 'poor'), and
\* byYear and byPerformance count every record
MalformedAttendanceSkipped ==
    /\ BucketTotal = Len(processed) - CountIn(MalformedAttendance)
    /\ byAttendanceRate.poor >= CountIn(AbsentAttendance \cup {EduNull})
    /\ OtherTablesUpdated

(***************************************************************************)
(* C21, C22, C30: the three scorers as sums of contributions.              *)
(***************************************************************************)
\* the contributions of each scorer in the order its code tests them: the
\* label appended and the points added
MarriageContributions ==
    << [label |-> "Out of school", points |-> 20],
       [label |-> "Orphan/Single parent", points |-> 15],
       [label |-> "Primary earner ill", points |-> 5],
       [label |-> "Migration/Risk area", points |-> 5],
       [label |-> "Missing children in HH", points |-> 10],
       [label |-> "BPL/Economic hardship", points |-> 10] >>

LabourContributions ==
    << [label |-> "Out of school", points |-> 15],
       [label |-> "Economic activity", points |-> 15],
       [label |-> "Works outside alone", points |-> 10],
       [label |-> "Bonded labor", points |-> 20],
       [label |-> "Orphan/Single parent", points |-> 10],
       [label |-> "Economic hardship", points |-> 10],
       [label |-> "Migration/Risk area", points |-> 10],
       [label |-> "Protection issues", points |-> 10] >>

TraffickingContributions ==
    << [label |-> "Out of school + Economic activity", points |-> 25],
       [label |-> "Out of school", points |-> 15],
       [label |-> "Economic activity", points |-> 10],
       [label |-> "Migrant family", points |-> 20],
       [label |-> "Child migrated", points |-> 15],
       [label |-> "Orphan/Single parent", points |-> 20],
       [label |-> "Economic hardship", points |-> 10],
       [label |-> "Trafficking risk (agent migration)", points |-> 20],
       [label |-> "Missing children in HH", points |-> 15] >>

\* the cell of a row as the scorers read it, and the substring test on it
CellText(r, field) ==
    Lower(PyStr(IF field \in DOMAIN r THEN r[field] ELSE Str(S_Empty)))

Has(r, field, word) ==
    Contains(word, CellText(r, field))

Is(r, field, word) ==
    CellText(r, field) = word

OutOfSchool(r) ==
    Has(r, F_enrollment, S_drop_out) \/ Has(r, F_enrollment, S_never_enrolled)

Guardian(r) ==
    Is(r, F_single_parent, S_yes) \/ Is(r, F_grandparent, S_yes)
        \/ Is(r, F_child_headed, S_yes)

Hardship(r) ==
    Has(r, F_ration, S_below_poverty) \/ Has(r, F_ration, S_no_ration)

Migrates(r) ==
    Has(r, F_migrated, S_yes) \/ Is(r, F_hh_migrates, S_yes)

\* whether contribution i of a scorer triggers on row r, from the cells alone
MarriageTriggered(r, i) ==
    CASE i = 1 -> OutOfSchool(r)
      [] i = 2 -> Guardian(r)
      [] i = 3 -> Is(r, F_earner_ill, S_yes)
      [] i = 4 -> Migrates(r)
      [] i = 5 -> Is(r, F_missing, S_yes)
      [] i = 6 -> Hardship(r)

LabourTriggered(r, i) ==
    CASE i = 1 -> OutOfSchool(r)
      [] i = 2 -> Has(r, F_economic, S_yes)
      [] i = 3 -> Has(r, F_economic, S_yes) /\ Has(r, F_economic, S_outside_home_alone)
      [] i = 4 -> Is(r, F_bonded, S_yes)
      [] i = 5 -> Guardian(r)
      [] i = 6 -> Hardship(r) \/ Is(r, F_earner_ill, S_yes)
      [] i = 7 -> Migrates(r)
      [] i = 8 -> Is(r, F_missing, S_yes)

TraffickingTriggered(r, i) ==
    CASE i = 1 -> OutOfSchool(r) /\ Has(r, F_economic, S_yes)
      [] i = 2 -> OutOfSchool(r) /\ ~Has(r, F_economic, S_yes)
      [] i = 3 -> ~OutOfSchool(r) /\ Has(r, F_economic, S_yes)
      [] i = 4 -> Is(r, F_hh_migrates, S_yes)
      [] i = 5 -> ~Is(r, F_hh_migrates, S_yes) /\ Has(r, F_migrated, S_yes)
      [] i = 6 -> Guardian(r)
      [] i = 7 -> Hardship(r) \/ Is(r, F_earner_ill, S_yes)
      [] i = 8 -> Has(r, F_migrated, S_agent) \/ Has(r, F_migrated, S_contractor)
                      \/ Has(r, F_migrated, S_labour)
      [] i = 9 -> Is(r, F_missing, S_yes)

\* the labels of the contributions with index from i on that are in T, in order
RECURSIVE LabelsFrom(_, _, _)
LabelsFrom(contributions, T, i) ==
    IF i > Len(contributions) THEN << >>
    ELSE (IF i \in T THEN <<contributions[i].label>> ELSE << >>)
             \o LabelsFrom(contributions, T, i + 1)

RECURSIVE PointsFrom(_, _, _)
PointsFrom(contributions, T, i) ==
    IF i > Len(contributions) THEN 0
    ELSE (IF i \in T THEN contributions[i].points ELSE 0)
             + PointsFrom(contributions, T, i + 1)

MarriageSet(r) ==
    {i \in 1..Len(MarriageContributions) : MarriageTriggered(r, i)}
LabourSet(r) ==
    {i \in 1..Len(LabourContributions) : LabourTriggered(r, i)}
TraffickingSet(r) ==
    {i \in 1..Len(TraffickingContributions) : TraffickingTriggered(r, i)}

\* the sum of the triggered contributions before the cap
MarriageSum(r) ==
    PointsFrom(MarriageContributions, MarriageSet(r), 1)
LabourSum(r) ==
    PointsFrom(LabourContributions, LabourSet(r), 1)
TraffickingSum(r) ==
    PointsFrom(TraffickingContributions, TraffickingSet(r), 1)

Scored(stage) ==
    CASE stage = "marriage" -> rpc \in {"marriage", "labour", "done"}
      [] stage = "labour" -> rpc \in {"labour", "done"}
      [] stage = "trafficking" -> rpc = "done"

\* C21: each scorer returns min(100, sum of the points of the contributions
\* that triggered), whatever the earlier rules did, and its factors list is
\* the labels of exactly those contributions in the order the scorer tests them
C21_ScoreIsCappedSumOfTriggered ==
    /\ Scored("marriage") =>
           /\ marriage.score = Min(100, MarriageSum(row))
           /\ marriage.factors = LabelsFrom(MarriageContributions, MarriageSet(row), 1)
    /\ Scored("labour") =>
           /\ labour.score = Min(100, LabourSum(row))
           /\ labour.factors = LabelsFrom(LabourContributions, LabourSet(row), 1)
    /\ Scored("trafficking") =>
           /\ trafficking.score = Min(100, TraffickingSum(row))
           /\ trafficking.factors =
                  LabelsFrom(TraffickingContributions, TraffickingSet(row), 1)

\* a row on which every rule of the marriage and the labour scorer triggered
C21_Witness ==
    /\ rpc = "done"
    /\ Len(marriage.factors) = 6
    /\ Len(labour.factors) = 8
    /\ Len(trafficking.factors) = 6

\* the labels of a factors list
LabelSet(factors) ==
    {factors[i] : i \in 1..Len(factors)}

SchoolingLabels ==
    {"Out of school + Economic activity", "Out of school", "Economic activity"}

MigrationLabels ==
    {"Migrant family", "Child migrated"}

\* the one label a composite rule of the trafficking scorer adds on row r
SchoolingBranch(r) ==
    IF OutOfSchool(r) /\ Has(r, F_economic, S_yes)
    THEN {"Out of school + Economic activity"}
    ELSE IF OutOfSchool(r) THEN {"Out of school"}
    ELSE IF Has(r, F_economic, S_yes) THEN {"Economic activity"}
    ELSE {}

MigrationBranch(r) ==
    IF Is(r, F_hh_migrates, S_yes) THEN {"Migrant family"}
    ELSE IF Has(r, F_migrated, S_yes) THEN {"Child migrated"}
    ELSE {}

\* the number of positions of a factors list that hold a label of L
Occurrences(factors, L) ==
    Cardinality({i \in 1..Len(factors) : factors[i] \in L})

\* C22: in the trafficking scorer the schooling/economic rule adds exactly one
\* of its three labels or none, the migration rule exactly one of its two or
\* none, and two labels of one composite rule never appear together
C22_CompositeBranchesExclusive ==
    Scored("trafficking") =>
        /\ LabelSet(trafficking.factors) \cap SchoolingLabels = SchoolingBranch(row)
        /\ LabelSet(trafficking.factors) \cap MigrationLabels = MigrationBranch(row)
        /\ Occurrences(trafficking.factors, SchoolingLabels) <= 1
        /\ Occurrences(trafficking.factors, MigrationLabels) <= 1

\* the household migrates and the child migrated as well: only the first
\* branch of the migration rule is taken
C22_Witness ==
    /\ rpc = "done"
    /\ Is(row, F_hh_migrates, S_yes)
    /\ Has(row, F_migrated, S_yes)
    /\ OutOfSchool(row)
    /\ Has(row, F_economic, S_yes)
    /\ "Migrant family" \in LabelSet(trafficking.factors)
    /\ "Out of school + Economic activity" \in LabelSet(trafficking.factors)

\* C30: the uncapped sum is at most 65 in the marriage scorer and at most 100
\* in the labour scorer, so their scores are the plain sums; the trafficking
\* sum is at most 110 and a sum above 100 is returned as exactly 100; every
\* score is a multiple of 5
C30_OnlyTraffickingIsClamped ==
    /\ Scored("marriage") =>
           /\ MarriageSum(row) <= 65
           /\ marriage.score = MarriageSum(row)
           /\ marriage.score % 5 = 0
    /\ Scored("labour") =>
           /\ LabourSum(row) <= 100
           /\ labour.score = LabourSum(row)
           /\ labour.score % 5 = 0
    /\ Scored("trafficking") =>
           /\ TraffickingSum(row) <= 110
           /\ (TraffickingSum(row) > 100 => trafficking.score = 100)
           /\ trafficking.score % 5 = 0

\* the three maxima are reached on one row: 65, 100 and 110 clamped to 100
C30_Witness ==
    /\ rpc = "done"
    /\ MarriageSum(row) = 65
    /\ marriage.score = 65
    /\ LabourSum(row) = 100
    /\ labour.score = 100
    /\ TraffickingSum(row) = 110
    /\ trafficking.score = 100

(***************************************************************************)
(* C24: the single-key and the two-key tables.                             *)
(***************************************************************************)
\* the two-key table nested sums, over its years, to the single-key table flat
TablesAgree(nested, flat) ==
    /\ DOMAIN nested = DOMAIN flat
    /\ \A k \in DOMAIN flat :
          \A field \in {"count", "boys", "girls"} :
              SumField(nested[k], field) = flat[k][field]

\* C24: after every processed record the keys of regionYearData are the keys
\* of byRegion, and for every region the counts, boys and girls of its years
\* sum to those of byRegion; the same holds for districtYearData and byDistrict
C24_TwoKeyTablesSumToSingleKey ==
    script \in RegionScripts =>
        /\ TablesAgree(regionYearData, byRegion)
        /\ TablesAgree(districtYearData, byDistrict)

\* a region whose records fall in two years, with a boy and a girl among them
C24_Witness ==
    /\ script \in RegionScripts
    /\ \E r \in DOMAIN byRegion :
          /\ Cardinality(DOMAIN regionYearData[r]) >= 2
          /\ byRegion[r].count = 3
          /\ byRegion[r].boys >= 1
          /\ byRegion[r].girls >= 1

(***************************************************************************)
(* C25: the two implementations of the region/district aggregation.        *)
(***************************************************************************)
RECURSIVE FlatAfter(_, _, _)
\* the single-key table the loop of script s builds from the records recs,
\* keyed by the region (district) the script extracts
FlatAfter(s, dim, recs) ==
    IF recs = << >> THEN EmptyTable
    ELSE LET last == recs[Len(recs)]
             key  == IF dim = "region" THEN RegionOf(s, last) ELSE DistrictOf(s, last)
         IN  Bump(FlatAfter(s, dim, SubSeq(recs, 1, Len(recs) - 1)), key,
                  is_male(GenderOf(s, last)), is_female(GenderOf(s, last)))

RECURSIVE NestedAfter(_, _, _)
\* the two-key table of script s after the records recs
NestedAfter(s, dim, recs) ==
    IF recs = << >> THEN EmptyNested
    ELSE LET last == recs[Len(recs)]
             key  == IF dim = "region" THEN RegionOf(s, last) ELSE DistrictOf(s, last)
         IN  BumpNested(NestedAfter(s, dim, SubSeq(recs, 1, Len(recs) - 1)), key,
                        YearOf(s, last),
                        is_male(GenderOf(s, last)), is_female(GenderOf(s, last)))

\* the five tables in the state are those script s builds from recs
TablesOf(s, recs) ==
    /\ byRegion = FlatAfter(s, "region", recs)
    /\ byDistrict = FlatAfter(s, "district", recs)
    /\ regionYearData = NestedAfter(s, "region", recs)
    /\ districtYearData = NestedAfter(s, "district", recs)
    /\ regionDistrictMap = MapAfter(s, recs)

\* C25: on the same records add_region_district_data builds the byRegion,
\* byDistrict, regionYearData, districtYearData and regionDistrictMap that
\* generate_child_annual_summary of generate_summary_data builds
C25_SameAggregation ==
    script = "add_region_district_data" =>
        TablesOf("generate_child_annual_summary", processed)

\* the fold above is the loop: each script's tables are its own fold
FoldIsLoop ==
    script \in RegionScripts => TablesOf(script, processed)

\* records with a trimmed region and district and a non-null 'Year'
PlainRecord(record) ==
    /\ "Year" \in DOMAIN record
    /\ record["Year"] # Null
    /\ \A s \in {"add_region_district_data", "generate_child_annual_summary"} :
          /\ RegionOf(s, record) = RegionOf("add_region_district_data", record)
          /\ DistrictOf(s, record) = DistrictOf("add_region_district_data", record)

\* on such records the two implementations agree
SameAggregationOnPlainRecords ==
    (/\ script = "add_region_district_data"
     /\ \A i \in DOMAIN processed : PlainRecord(processed[i]))
        => TablesOf("generate_child_annual_summary", processed)

(***************************************************************************)
(* C23: the score bands and the level counts of protectionVulnerability.   *)
(***************************************************************************)
\* the frame each written category was counted over
FrameOf(category) ==
    IF category = "childMarriage" THEN girls_10_18 ELSE children_6_18

\* C23: in every category written to protectionVulnerability the four score
\* bands sum to the number of scored records, '1-24', '25-49' and '50+' equal
\* lowRisk, mediumRisk and highRisk, and totalAtRisk is the sum of these three
C23_BandsPartitionAndMatchLevels ==
    \A category \in DOMAIN protectionVulnerability :
        LET c == protectionVulnerability[category]
        IN  /\ c.byScoreBand["0"] + c.byScoreBand["1-24"] + c.byScoreBand["25-49"]
                   + c.byScoreBand["50+"] = Len(FrameOf(category))
            /\ c.byScoreBand["1-24"] = c.lowRisk
            /\ c.byScoreBand["25-49"] = c.mediumRisk
            /\ c.byScoreBand["50+"] = c.highRisk
            /\ c.totalAtRisk = c.lowRisk + c.mediumRisk + c.highRisk

\* the document is written from frames with a score on each threshold: 25 and
\* 50 in the labour column of two children
C23_Witness ==
    /\ pc = "finished"
    /\ DOMAIN protectionVulnerability =
           {"childMarriage", "childLabour", "childTrafficking"}
    /\ \E i, j \in 1..Len(children_6_18) :
          /\ children_6_18[i].LabourRiskScore = 25
          /\ children_6_18[j].LabourRiskScore = 50
    /\ protectionVulnerability["childLabour"].mediumRisk = 1
    /\ protectionVulnerability["childLabour"].highRisk = 1

(***************************************************************************)
(* C26, C27: the backups of the raw data files.                            *)
(***************************************************************************)
\* C26: whenever child_annual_data_ORIGINAL.json exists it holds the full raw
\* dataset child_annual_data.json started with
C26_OriginalHoldsFullDataset ==
    exists(data_dir[F_annual_original]) =>
        data_dir[F_annual_original] = JsonFile(FullDataset(F_annual))

\* the other half of that sentence: an _ORIGINAL file that exists is not
\* written, renamed or removed by any run
OriginalNeverOverwritten ==
    [][\A f \in {F_annual_original, F_education_original} :
           exists(data_dir[f]) => data_dir'[f] = data_dir[f]]_vars

\* the statement as written: after a run of quick_fix_data the content a file
\* had before the run is in its _BACKUP file
C27_BackupHoldsContentBeforeRun ==
    script = "quick_fix_data" =>
        \A f \in {F_annual, F_education} :
            exists(data_dir0[f]) => data_dir[BackupPath(f)] = data_dir0[f]

\* C27: a run of quick_fix_data moves a file to its _BACKUP only when no
\* _BACKUP exists yet, and then the content the file had before the run is in
\* the _BACKUP; an existing _BACKUP is left as it was, and the file is
\* replaced by the minimal document in both cases
C27_FirstRunBacksUp ==
    script = "quick_fix_data" =>
        \A f \in {F_annual, F_education} :
            /\ (~exists(data_dir0[BackupPath(f)]) /\ exists(data_dir0[f]))
                   => data_dir[BackupPath(f)] = data_dir0[f]
            /\ exists(data_dir0[BackupPath(f)])
                   => data_dir[BackupPath(f)] = data_dir0[BackupPath(f)]
            /\ data_dir[f] = JsonFile(MinimalSample(f))

\* a first run: the raw dataset is moved to the backup; and a later run that
\* finds a backup and a file with other content
C27_Witness ==
    /\ script = "quick_fix_data"
    /\ ~exists(data_dir0[F_annual_backup])
    /\ data_dir0[F_annual] = JsonFile(FullDataset(F_annual))
    /\ data_dir[F_annual_backup] = JsonFile(FullDataset(F_annual))
    /\ data_dir[F_annual] = JsonFile(MinimalSample(F_annual))
    /\ exists(data_dir0[F_education])
    /\ data_dir[F_education_backup] = data_dir0[F_education]

(***************************************************************************)
(* C28, C29: advanced_analytics.json.                                      *)
(***************************************************************************)
\* the document generate_advanced_analytics wrote and the one
\* update_percentage_charts left
AnalyticsBefore ==
    files0[F_advanced_analytics].doc
AnalyticsAfter ==
    files[F_advanced_analytics].doc

\* C28: update_percentage_charts run after generate_advanced_analytics leaves
\* the set of top-level keys of advanced_analytics.json as it was, replaces
\* the gender-distribution chart generate_advanced_analytics wrote, and keeps
\* the value of every key other than the three charts
C28_UpdateReplacesExistingCharts ==
    (script = "update_percentage_charts" /\ pc = "finished") =>
        /\ DOMAIN AnalyticsAfter = DOMAIN AnalyticsBefore
        /\ DOMAIN AnalyticsBefore = AnalyticsKeys
        /\ AnalyticsAfter["genderDistributionByState"] = "fresh"
        /\ \A k \in AnalyticsKeys \ {"genderDistributionByState", "enrollmentTrends",
                                    "stateWiseComparison"} :
              AnalyticsAfter[k] = AnalyticsBefore[k]

\* what the update does instead: a 21st key, the chart of
\* generate_advanced_analytics kept beside it
UpdateAddsGenderDistributionKey ==
    (script = "update_percentage_charts" /\ pc = "finished") =>
        /\ DOMAIN AnalyticsAfter = AnalyticsKeys \cup {"genderDistribution"}
        /\ AnalyticsAfter["genderDistributionByState"]
               = AnalyticsBefore["genderDistributionByState"]
        /\ \A k \in AnalyticsKeys \ {"enrollmentTrends", "stateWiseComparison"} :
              AnalyticsAfter[k] = AnalyticsBefore[k]

\* the run of generate_advanced_analytics is over
GenerateEnded ==
    /\ script = "generate_advanced_analytics"
    /\ pc \in {"finished", "raised"}

\* C29: when a builder returned None the run still ends with
\* advanced_analytics.json written, all 20 keys present and the key of that
\* chart null
C29_NoneChartWrittenAsNull ==
    (GenerateEnded /\ missing_columns # {}) =>
        /\ pc = "finished"
        /\ F_advanced_analytics \in written
        /\ DOMAIN files[F_advanced_analytics].doc = AnalyticsKeys
        /\ \A k \in missing_columns : files[F_advanced_analytics].doc[k] = Null

\* what happens instead: the run raises at the first such chart and the file
\* is not written
NoneChartAborts ==
    (GenerateEnded /\ missing_columns # {}) =>
        /\ pc = "raised"
        /\ written = {}
        /\ files = files0
        /\ ChartEntries[chart].key \in missing_columns

\* the typed arrays of a written document are plain lists
DecompressedLists ==
    (script = "generate_advanced_analytics" /\ pc = "finished") =>
        /\ DOMAIN files[F_advanced_analytics].doc = AnalyticsKeys
        /\ files[F_advanced_analytics].doc["indiaMap"].data[1].y = PyList(<<-1, 1>>)
        /\ files[F_advanced_analytics].doc["genderDistributionByState"].data[1]
               = [x |-> PyList(<<255, 1>>), y |-> PyList(<<513, -1>>)]
        /\ files[F_advanced_analytics].doc["genderDistributionByState"].data[2].y
               = PyList(<<67305985>>)
        /\ files[F_advanced_analytics].doc["enrollmentTrends"].data
               = << [x |-> PyList(<< >>), y |-> PyList(<< >>)],
                    [x |-> PyDict(("dtype" :> "i1")), y |-> PyList(<< >>)] >>

=============================================================================
